---- MODULE Spec2Model ----
(***************************************************************************)
(* The memory/checkpoint layer of MESHNET's agents: RedisMemoryStore        *)
(* (agents/memory/redis_memory.py) and LangGraphRedisCheckpointer           *)
(* (agents/langgraph/redis_checkpoint.py) over one Redis keyspace.          *)
(*                                                                          *)
(* Every Redis command is one atomic step; a Python method is the sequence  *)
(* of its commands, so several clients interleave between commands.  Keys   *)
(* are the strings the code builds, sorted-set members are ordered as Redis *)
(* orders them (score, then member bytes), and the clock is read where the  *)
(* code reads datetime.utcnow().                                            *)
(***************************************************************************)
EXTENDS Integers, Sequences, FiniteSets, TLC

VARIABLES
    db,          \* the Redis keyspace: key string -> [t: type, v: value]
    ttl,         \* keys that carry an expiry: key -> [at: set at, secs: seconds]
    now,         \* the wall clock, in clock ticks (milliseconds) since its base
    pc,          \* per client: the command its current call issues next
    frame,       \* per client: arguments and locals of its current call
    last,        \* the call that returned most recently: its frame, its result,
                 \* and whether an except branch produced the result
    log,         \* per sorted-set key: the members added by calls that returned success;
                 \* per context or checkpoint content key: the arguments written under it
    untrimmed,   \* per sorted-set key: inserts not yet followed by a trim
    issued,      \* checkpoint ids generated so far (their salts never repeat)
    failures,    \* backend errors injected so far
    ncalls       \* calls begun so far

vars == <<db, ttl, now, pc, frame, last, log, untrimmed, issued, failures, ncalls>>

----------------------------------------------------------------------------
(* Bounds of the model.                                                    *)

\* Calls begun in one behaviour.
MaxOps == 3
\* The clock runs from 0 to MaxTime ticks.
MaxTime == 1
\* Backend errors (connection failure, timeout) injected in one behaviour.
MaxFailures == 1
\* Waits of the callers between calls in one behaviour.
MaxSleeps == 2
\* Retention of the three bounded collections.  The code keeps 1000
\* conversations (redis_memory.py:80), 500 decision ids (redis_memory.py:177)
\* and 50 checkpoint ids (redis_checkpoint.py:78); the model keeps fewer so
\* that eviction happens within MaxOps calls.  A decision id is a hash of the
\* agent id and the clock value, so one agent has at most MaxTime + 1 of them.
MaxConversations == 2
MaxDecisions == 1
MaxCheckpoints == 2
\* Distinct os.urandom salts available to _generate_checkpoint_id.
NumSalts == 2

Clients == {"c1", "c2"}
Agents == {"a1", "a2"}
Threads == {"t1", "t2"}
Limits == {0, 1, 2}

\* Default limits of get_conversation_history and get_recent_decisions.
DefaultHistoryLimit == 50
DefaultDecisionLimit == 10

\* save_agent_state bundles get_conversation_history(agent_id, limit=20) and
\* summarises the state as str(state)[:200].
BundleLimit == 20
SummaryLength == 200

----------------------------------------------------------------------------
(* Strings.                                                                *)

\* Printable ASCII in byte order, 32..95 and 97..126 (no string holds a byte 96).
AsciiLow ==
    " !\"#$%&'()*+,-./0123456789:;<=>?@ABCDEFGHIJKLMNOPQRSTUVWXYZ[\\]^_"
AsciiHigh == "abcdefghijklmnopqrstuvwxyz{|}~"

Char(s, i) == SubSeq(s, i, i)

\* The byte value of each printable ASCII character.
CharCodes ==
    [c \in {Char(AsciiLow, i) : i \in 1..Len(AsciiLow)}
            \cup {Char(AsciiHigh, i) : i \in 1..Len(AsciiHigh)} |->
        IF \E i \in 1..Len(AsciiLow) : Char(AsciiLow, i) = c
        THEN 31 + (CHOOSE i \in 1..Len(AsciiLow) : Char(AsciiLow, i) = c)
        ELSE 96 + (CHOOSE i \in 1..Len(AsciiHigh) : Char(AsciiHigh, i) = c)]

CharCode(c) == CharCodes[c]

\* Length of the longest common prefix of a and b.
RECURSIVE CommonPrefix(_, _, _)
CommonPrefix(a, b, i) ==
    IF i < Len(a) /\ i < Len(b) /\ Char(a, i + 1) = Char(b, i + 1)
    THEN CommonPrefix(a, b, i + 1)
    ELSE i

\* Bytewise (memcmp) order of two strings, as Redis orders equal-score members.
StrLess(a, b) ==
    LET n == CommonPrefix(a, b, 0) IN
    IF n = Len(a) THEN n < Len(b)
    ELSE IF n = Len(b) THEN FALSE
    ELSE CharCode(Char(a, n + 1)) < CharCode(Char(b, n + 1))

\* str.lower() on ASCII.
LowerChars ==
    [c \in DOMAIN CharCodes |->
        IF CharCodes[c] >= 65 /\ CharCodes[c] <= 90 THEN Char(AsciiHigh, CharCodes[c] - 64) ELSE c]

LowerChar(c) == LowerChars[c]

\* Characters i..j of s in lower case.
RECURSIVE LowerFrom(_, _, _)
LowerFrom(s, i, j) ==
    IF i > j THEN ""
    ELSE IF i = j THEN LowerChar(Char(s, i))
    ELSE LET m == (i + j) \div 2 IN LowerFrom(s, i, m) \o LowerFrom(s, m + 1, j)

Lower(s) == LowerFrom(s, 1, Len(s))

\* Python's `q in s` on strings.
Contains(s, q) ==
    \E i \in 1..(Len(s) - Len(q) + 1) : SubSeq(s, i, i + Len(q) - 1) = q

RECURSIVE ZeroPad(_, _)
ZeroPad(s, n) == IF Len(s) >= n THEN s ELSE ZeroPad("0" \o s, n)

----------------------------------------------------------------------------
(* The clock.                                                              *)

\* One tick is the smallest step of the clock: a millisecond.
TicksPerSecond == 1000

\* datetime.utcnow().isoformat() at tick t: the fraction is left out when the
\* microsecond field is 0.  Covers the first month after the clock's base.
IsoFormat(t) ==
    LET secs == t \div TicksPerSecond
        us   == (t % TicksPerSecond) * (1000000 \div TicksPerSecond)
        head == "2026-01-" \o ZeroPad(ToString(secs \div 86400 + 1), 2)
                \o "T" \o ZeroPad(ToString((secs \div 3600) % 24), 2)
                \o ":" \o ZeroPad(ToString((secs \div 60) % 60), 2)
                \o ":" \o ZeroPad(ToString(secs % 60), 2)
    IN  IF us = 0 THEN head ELSE head \o "." \o ZeroPad(ToString(us), 6)

\* datetime.utcnow().timestamp() at tick t, as the sorted-set score.
Timestamp(t) == t


----------------------------------------------------------------------------
(* Python values and json.                                                 *)
(*                                                                         *)
(* A scalar is [ty, s]: its Python type and its text.  A dict is the       *)
(* sequence of its items [k, v].  An optional value is <<>> (None) or <<x>>.*)

PyStr(s) == [ty |-> "str", s |-> s]
PyInt(s) == [ty |-> "int", s |-> s]
Item(k, v) == [k |-> k, v |-> v]

None == <<>>
Some(x) == <<x>>

\* Payloads callers pass to store_conversation / store_decision /
\* store_agent_state; Numbered has an int key.
Topic == <<Item(PyStr("topic"), PyStr("Mining rewards"))>>
Note == <<Item(PyStr("note"), PyStr("hello"))>>
Numbered == <<Item(PyInt("1"), PyStr("hello"))>>
Payloads == {Topic, Note, Numbered}

\* State blobs and a metadata dict callers pass to save_checkpoint.
StepZero == <<Item(PyStr("step"), PyInt("0"))>>
StepOne == <<Item(PyStr("step"), PyInt("1"))>>
Tagged == <<Item(PyStr("tag"), PyStr("auto"))>>

\* json.dumps followed by json.loads of a dict: keys come back as str.
JsonDict(d) == [i \in 1..Len(d) |-> Item(PyStr(d[i].k.s), d[i].v)]

Quote(s) == "\"" \o s \o "\""

ScalarText(x) == IF x.ty = "str" THEN Quote(x.s) ELSE x.s

RECURSIVE ItemsText(_, _)
ItemsText(d, i) ==
    IF i > Len(d) THEN ""
    ELSE (IF i > 1 THEN ", " ELSE "")
         \o Quote(d[i].k.s) \o ": " \o ScalarText(d[i].v) \o ItemsText(d, i + 1)

\* json.dumps of a dict of scalars.
DictText(d) == "{" \o ItemsText(d, 1) \o "}"

\* The text json.dumps gives the conversation entry of store_conversation.
ConversationText(e) ==
    "{\"timestamp\": " \o Quote(e.timestamp) \o ", \"data\": " \o DictText(e.data)
    \o ", \"agent_id\": " \o Quote(e.agent_id) \o "}"

\* The text json.dumps gives the decision entry of store_decision.
DecisionText(e) ==
    "{\"timestamp\": " \o Quote(e.timestamp) \o ", \"agent_id\": " \o Quote(e.agent_id)
    \o ", \"decision_id\": " \o Quote(e.decision_id) \o ", \"data\": " \o DictText(e.data) \o "}"

\* A sorted-set member that is already a string (an id).
IdText(m) == m

\* The bytes of a sorted-set member of either kind.
MemberText(kind, m) == IF kind = "conversation" THEN ConversationText(m) ELSE IdText(m)

----------------------------------------------------------------------------
(* Redis.                                                                  *)

Exists(d, key) == key \in DOMAIN d

Put(d, key, val) == [k \in DOMAIN d \cup {key} |-> IF k = key THEN val ELSE d[k]]

Del(d, key) == [k \in DOMAIN d \ {key} |-> d[k]]

\* WRONGTYPE: the key holds a value of another type than the command needs.
WrongType(d, key, t) == Exists(d, key) /\ d[key].t # t

ZSetOf(d, key) == IF Exists(d, key) THEN d[key].v ELSE {}

ZCard(d, key) == Cardinality(ZSetOf(d, key))

\* Redis's order of two sorted-set elements: by score, then by member bytes.
ZLess(x, y, kind) ==
    \/ x.s < y.s
    \/ x.s = y.s /\ x.m # y.m /\ StrLess(MemberText(kind, x.m), MemberText(kind, y.m))

\* The elements of z in ascending rank order.
ZSorted(z, kind) ==
    [i \in 1..Cardinality(z) |->
        CHOOSE x \in z : Cardinality({y \in z : ZLess(y, x, kind)}) = i - 1]

Reverse(s) == [i \in 1..Len(s) |-> s[Len(s) + 1 - i]]

\* The index sanitising shared by ZRANGE, ZREVRANGE and ZREMRANGEBYRANK:
\* the 1-based positions start..stop select out of n, none when empty.
RankFrom(n, start) == IF start < 0 THEN (IF n + start < 0 THEN 0 ELSE n + start) ELSE start
RankTo(n, stop) ==
    LET e == IF stop < 0 THEN n + stop ELSE stop IN IF e >= n THEN n - 1 ELSE e
RankSlice(s, start, stop) ==
    LET n == Len(s)
        a == RankFrom(n, start)
        b == RankTo(n, stop)
    IN  IF a > b \/ a >= n THEN <<>> ELSE SubSeq(s, a + 1, b + 1)

\* ZADD key {member: score}: adds the member or moves it to the new score.
ZAdd(d, key, m, s) ==
    Put(d, key, [t |-> "zset",
                 v |-> {x \in ZSetOf(d, key) : x.m # m} \cup {[m |-> m, s |-> s]}])

\* ZRANGE / ZREVRANGE key start stop: the members, lowest / highest rank first.
ZRange(d, key, start, stop, kind) ==
    LET s == RankSlice(ZSorted(ZSetOf(d, key), kind), start, stop)
    IN  [i \in 1..Len(s) |-> s[i].m]
ZRevRange(d, key, start, stop, kind) ==
    LET s == RankSlice(Reverse(ZSorted(ZSetOf(d, key), kind)), start, stop)
    IN  [i \in 1..Len(s) |-> s[i].m]

\* ZREMRANGEBYRANK key start stop; a sorted set left empty is deleted.
ZRemRangeByRank(d, key, start, stop, kind) ==
    LET gone == RankSlice(ZSorted(ZSetOf(d, key), kind), start, stop)
        rest == ZSetOf(d, key) \ {gone[i] : i \in 1..Len(gone)}
    IN  IF ~Exists(d, key) THEN d
        ELSE IF rest = {} THEN Del(d, key)
        ELSE Put(d, key, [t |-> "zset", v |-> rest])

\* SETEX / SET / GET on string keys.
SetStr(d, key, val) == Put(d, key, [t |-> "string", v |-> val])
Get(d, key) == IF Exists(d, key) THEN Some(d[key].v) ELSE None

\* The backend's clock counts milliseconds.
Milliseconds(t) == t \div (TicksPerSecond \div 1000)

\* The expiry table after key got a TTL of secs seconds at tick t / lost it.
SetTtl(e, key, t, secs) ==
    [k \in DOMAIN e \cup {key} |-> IF k = key THEN [at |-> Milliseconds(t), secs |-> secs]
                                              ELSE e[k]]
ClearTtl(e, key) == [k \in DOMAIN e \ {key} |-> e[k]]

\* A key expires once its TTL has elapsed.
Expired(e, key, t) ==
    key \in DOMAIN e /\ (Milliseconds(t) - e[key].at) \div 1000 >= e[key].secs

----------------------------------------------------------------------------
(* hashlib.md5(s.encode()).hexdigest(), tabulated for the strings the model *)
(* hashes: "<agent>_<isoformat>" (store_decision) and                      *)
(* "<thread>_<isoformat>_<salt>" (_generate_checkpoint_id), at the clock   *)
(* values the model reaches.                                               *)

Md5Hex(s) ==
    CASE
       s = "a1_2026-01-01T00:00:00" -> "a2b8cdbf8a9375c760d84f8db30d7438"
    [] s = "a1_2026-01-01T00:00:00.001000" -> "67bb7fdbb825ce13b4b4ac791da52962"
    [] s = "a1_2026-01-01T00:00:00.002000" -> "d07c1f2cd0f46f8cbd35e1cef718264b"
    [] s = "a1_2026-01-01T00:00:00.003000" -> "31e2dbffa533c151c34bee633639b281"
    [] s = "a1_2026-01-01T00:00:00.004000" -> "b7e718088a99e5f926706186581b0c29"
    [] s = "a1_2026-01-01T00:00:00.005000" -> "69762ae29244574d7a4624cef4e4b338"
    [] s = "a1_2026-01-01T00:00:00.006000" -> "3e25e4db73516ec5aa9ee73be63e8138"
    [] s = "a1_2026-01-01T00:00:00.007000" -> "0e3e76c2cdddf4092f769ecee073189c"
    [] s = "a1_2026-01-01T00:00:00.008000" -> "76af3b00d5be29733dca9cd6c066f930"
    [] s = "a1_2026-01-01T00:00:00.009000" -> "353d7950c79a4434bf522400b3a75e47"
    [] s = "a1_2026-01-01T00:00:00.010000" -> "92157d9ca448756e35422a4ddefa2515"
    [] s = "a1_2026-01-01T00:00:00.011000" -> "4aabc1a992ece75725d42040e7865d58"
    [] s = "a1_2026-01-01T00:00:00.012000" -> "e18e551653dc9bfbf3f897df4e192f0e"
    [] s = "a1_2026-01-01T00:00:00.013000" -> "1f8abcdd7c55fd09ff9e326d837d0dca"
    [] s = "a1_2026-01-01T00:00:00.014000" -> "311e345ca539bf2840e4e2e2394ddba9"
    [] s = "a1_2026-01-01T00:00:00.015000" -> "1a71ff4eeb7a92e5be63ae064d71ba19"
    [] s = "a1_2026-01-01T00:00:00.016000" -> "44e0f82e12effc984a701610d874be46"
    [] s = "a1_2026-01-01T00:00:00.017000" -> "70c7cc557af4d160efb9ba5eaa95d9a2"
    [] s = "a1_2026-01-01T00:00:00.018000" -> "125b289bdca10a0a1b7e6e9e2cde68e5"
    [] s = "a1_2026-01-01T00:00:00.019000" -> "be6c6216149ab59b61508996b6a1a263"
    [] s = "a1_2026-01-01T00:00:00.020000" -> "5caba8c7d4b91980f669483a3cdeccfe"
    [] s = "a1_2026-01-01T00:00:00.021000" -> "0b76921f81c0f14f4547315a352f6d42"
    [] s = "a1_2026-01-01T00:00:00.022000" -> "63818d53c8528889cdfe5329178302ef"
    [] s = "a1_2026-01-01T00:00:00.023000" -> "67f236f7a34b8250c7f9b1ca6e03a0b7"
    [] s = "a1_2026-01-01T00:00:00.024000" -> "eab9052c7cc2283ea9e3645039a20239"
    [] s = "a1_2026-01-01T00:00:00.025000" -> "3f69ad6e789765c0fdeb30779ed1b40c"
    [] s = "a1_2026-01-01T00:00:00.026000" -> "a04728ac80165de381380db3660e89bf"
    [] s = "a1_2026-01-01T00:00:00.027000" -> "93c7e893703ad67fd6f0dab106d83ff4"
    [] s = "a1_2026-01-01T00:00:00.028000" -> "1aa2e5199bb3a36736bc94984155570e"
    [] s = "a1_2026-01-01T00:00:00.029000" -> "c50df2affe5f2c0923568feccf0649b7"
    [] s = "a1_2026-01-01T00:00:00.030000" -> "dd0877c2357482dc3d10affd24da5712"
    [] s = "a1_2026-01-01T00:00:00.031000" -> "da70eed9c5e70cf92eae6587cde09d71"
    [] s = "a1_2026-01-01T00:00:00.032000" -> "24ff418fa0bd95c0768f1bc325ab0ed3"
    [] s = "a1_2026-01-01T00:00:00.033000" -> "4e66de34e4e204dea9822095b46a4603"
    [] s = "a1_2026-01-01T00:00:00.034000" -> "3101ac726a1fda3b488f566bf0ace0eb"
    [] s = "a1_2026-01-01T00:00:00.035000" -> "ca88f6fff132f81922073433ac99fe81"
    [] s = "a1_2026-01-01T00:00:00.036000" -> "7909c66312c0726e4c158bedf6d6d1b0"
    [] s = "a1_2026-01-01T00:00:00.037000" -> "c55390c43a7fdf3e3b19421cc5160cec"
    [] s = "a1_2026-01-01T00:00:00.038000" -> "02ed86bb02dffe474b3fbe5fd038bb8c"
    [] s = "a1_2026-01-01T00:00:00.039000" -> "bbfe3ca2b6afd9e32d2f72f3a81f9637"
    [] s = "a1_2026-01-01T00:00:00.040000" -> "30dda9c61797a2d2f1482cc5e33c8f6e"
    [] s = "a1_2026-01-01T00:00:00.041000" -> "1684fbdadd8b3652a443f043ef5bf610"
    [] s = "a1_2026-01-01T00:00:00.042000" -> "b446437463017522974aa29b0753f064"
    [] s = "a1_2026-01-01T00:00:00.043000" -> "fb9fcc9e8507ba6716757a880cddac8c"
    [] s = "a1_2026-01-01T00:00:00.044000" -> "df223d4d96f0efbd49bb33ce30ef1c87"
    [] s = "a1_2026-01-01T00:00:00.045000" -> "9515995ef76aee63cad46a7f4e254611"
    [] s = "a1_2026-01-01T00:00:00.046000" -> "b69ee04925128c964c4b9ae21955f370"
    [] s = "a1_2026-01-01T00:00:00.047000" -> "b783c3bd72a5d5bbfb4bbe6f31a7943e"
    [] s = "a1_2026-01-01T00:00:00.048000" -> "ba3078ebd10e4ceb5f5443a05653b49b"
    [] s = "a1_2026-01-01T00:00:00.049000" -> "371d638460d7a0563bc1e7ad9ed8bb3b"
    [] s = "a1_2026-01-01T00:00:00.050000" -> "3b7e3f117be8b52c18ff35b4055d42bc"
    [] s = "a1_2026-01-01T00:00:00.051000" -> "79d7e519c02f036faaa549e239f8cbbf"
    [] s = "a1_2026-01-01T00:00:00.052000" -> "fc8ac698d507dd49e8de3b3248ecd91e"
    [] s = "a1_2026-01-01T00:00:00.053000" -> "29fc3f405dcfb8512620d3a9479b2d91"
    [] s = "a1_2026-01-01T00:00:00.054000" -> "d00e7e7bb6457b466740e80e70052ce9"
    [] s = "a1_2026-01-01T00:00:00.055000" -> "e7ed6b8aadd7ef8c9a940373a934e355"
    [] s = "a1_2026-01-01T00:00:00.056000" -> "66bf2e1e0907071479a6337c644d1a2f"
    [] s = "a1_2026-01-01T00:00:00.057000" -> "f16171b9d5183b88904dd7cd9859000b"
    [] s = "a1_2026-01-01T00:00:00.058000" -> "d52c99ec842380f7c181152dce3a7dd2"
    [] s = "a1_2026-01-01T00:00:00.059000" -> "4438638f5f47696b6bd0500a9dccbf1d"
    [] s = "a1_2026-01-01T00:00:00.060000" -> "95a06d176dd429a0bc006d951f5ae4c8"
    [] s = "a1_2026-01-01T00:00:00.061000" -> "2264767b815467343cbc02edef2044ed"
    [] s = "a1_2026-01-01T00:00:00.062000" -> "34cc687770085cefa314625438918e6e"
    [] s = "a1_2026-01-01T00:00:00.063000" -> "8cd054746d705b5922606e341644e680"
    [] s = "a1_2026-01-01T00:00:00.064000" -> "f9a977eacdd355c4a45aad380a9b9943"
    [] s = "a1_2026-01-01T00:00:00.065000" -> "4b7f74c934e3c45c7c5327b1df4a8d94"
    [] s = "a1_2026-01-01T00:00:00.066000" -> "14498bf339dee0f20121fb79f7256454"
    [] s = "a1_2026-01-01T00:00:00.067000" -> "7a7b54dd1bb615e98e58dda7bd80e12d"
    [] s = "a1_2026-01-01T00:00:00.068000" -> "9c5386f9fe7e393bc4b753918228e80f"
    [] s = "a1_2026-01-01T00:00:00.069000" -> "d2c3bf07175034f3542f1e36f0e55223"
    [] s = "a1_2026-01-01T00:00:00.070000" -> "30562a2dd1c03a6f85e14e19def7fec5"
    [] s = "a1_2026-01-01T00:00:00.071000" -> "80cb287ad37c5f76eabc24f70ce94090"
    [] s = "a1_2026-01-01T00:00:00.072000" -> "0cdabf4af2501d51588d3c1a42def917"
    [] s = "a1_2026-01-01T00:00:00.073000" -> "89b894ac7188805244b40e595e441a0c"
    [] s = "a1_2026-01-01T00:00:00.074000" -> "bfd216fa053967e92b2c1edf2719e5af"
    [] s = "a1_2026-01-01T00:00:00.075000" -> "f7cb3f51d79f47a9a9878e8243b1b367"
    [] s = "a1_2026-01-01T00:00:00.076000" -> "b9e8811f6578477566848043a0d0fd18"
    [] s = "a1_2026-01-01T00:00:00.077000" -> "9dad7142315e93729b2bb760192660ae"
    [] s = "a1_2026-01-01T00:00:00.078000" -> "b4aba24edb0cb6e0a95f8b83b248e798"
    [] s = "a1_2026-01-01T00:00:00.079000" -> "b98ff7101143da128b20bb3e94610c2f"
    [] s = "a1_2026-01-01T00:00:00.080000" -> "97b82be4dc9763fc77299614892da6ea"
    [] s = "a1_2026-01-01T00:00:00.081000" -> "eb337279d883da99d09f42f2e8037ec7"
    [] s = "a1_2026-01-01T00:00:00.082000" -> "cb1167d55c77a9ba580b9dd5d65197c2"
    [] s = "a1_2026-01-01T00:00:00.083000" -> "70ddab756a0306825f4356671a63b725"
    [] s = "a1_2026-01-01T00:00:00.084000" -> "d4f13d4ed0a7a46df3094aa841373ff9"
    [] s = "a1_2026-01-01T00:00:00.085000" -> "c8a8a1c06ea0a5d1060f2a281de9620d"
    [] s = "a1_2026-01-01T00:00:00.086000" -> "d8067c2551f0c818e362ae36acaf0d3a"
    [] s = "a1_2026-01-01T00:00:00.087000" -> "e84cf6e640044a25c9eba198e5c69138"
    [] s = "a1_2026-01-01T00:00:00.088000" -> "c7acca599774c76e1d22b1c0743dca8e"
    [] s = "a1_2026-01-01T00:00:00.089000" -> "2207310865e6fdf14520d96f9615649d"
    [] s = "a1_2026-01-01T00:00:00.090000" -> "568a025a9dd2ddfef2a71678de81be53"
    [] s = "a1_2026-01-01T00:00:00.091000" -> "2db22afdc51e94610b7fdd1db3cf77e6"
    [] s = "a1_2026-01-01T00:00:00.092000" -> "3ccbbc314a09e319a50cd6a3e3fbf982"
    [] s = "a1_2026-01-01T00:00:00.093000" -> "13557b810afc6d5ac8824a03c64da014"
    [] s = "a1_2026-01-01T00:00:00.094000" -> "6253d89886433eaa7e7ac649e1415da3"
    [] s = "a1_2026-01-01T00:00:00.095000" -> "858b712b63c7d5335f69b36fbdbf581a"
    [] s = "a1_2026-01-01T00:00:00.096000" -> "028dff7371f41f19c505f0a2d72eeb9d"
    [] s = "a1_2026-01-01T00:00:00.097000" -> "e5a962744eff8890aae70a21d907b5f3"
    [] s = "a1_2026-01-01T00:00:00.098000" -> "c841632f6430e7023ebbf91666166212"
    [] s = "a1_2026-01-01T00:00:00.099000" -> "c329bdc1f123751e577a0e488c68e069"
    [] s = "a2_2026-01-01T00:00:00" -> "50cabf9163f4286c9a21bfa207596082"
    [] s = "a2_2026-01-01T00:00:00.001000" -> "d8a8a8314976d678e54845295f65f810"
    [] s = "a2_2026-01-01T00:00:00.002000" -> "b4eb54fd432a4a78c16bb645930a891d"
    [] s = "a2_2026-01-01T00:00:00.003000" -> "c5c36740ccc5b2bc243ba1914d50da16"
    [] s = "a2_2026-01-01T00:00:00.004000" -> "0d7e702c9d7da6f125ad7ff2055980f6"
    [] s = "a2_2026-01-01T00:00:00.005000" -> "141c2e9221ae799f03451249d2b61122"
    [] s = "t1_2026-01-01T00:00:00_3f9a1c0de4b27a55" -> "5c38898b82d9ad48d63b9b486d7a2828"
    [] s = "t1_2026-01-01T00:00:00_a07be2219c4d6f10" -> "c59e7c3f8a4c893fe916946e2bfd31a9"
    [] s = "t1_2026-01-01T00:00:00_5c11d8f3027ae9b4" -> "ab2721076e5266209af628aaf700dd3a"
    [] s = "t1_2026-01-01T00:00:00_e8d4406b1fa35c27" -> "e12fae14e51f0dc5e934dbcb9d92e699"
    [] s = "t1_2026-01-01T00:00:00.001000_3f9a1c0de4b27a55" -> "ae702f81f7890505e94587ca1eb45a66"
    [] s = "t1_2026-01-01T00:00:00.001000_a07be2219c4d6f10" -> "595d63c7ce1eaaa3459d550dae1622a1"
    [] s = "t1_2026-01-01T00:00:00.001000_5c11d8f3027ae9b4" -> "f0077afe2c7c39fd3dd2c35a06b27704"
    [] s = "t1_2026-01-01T00:00:00.001000_e8d4406b1fa35c27" -> "0b9d0e5c19352aad7e7e6b1df0d5e5a4"
    [] s = "t1_2026-01-01T00:00:00.002000_3f9a1c0de4b27a55" -> "038120d83fd81b77c85daaa879cc1c0e"
    [] s = "t1_2026-01-01T00:00:00.002000_a07be2219c4d6f10" -> "0e9f8876e38042396ad869ef12352215"
    [] s = "t1_2026-01-01T00:00:00.002000_5c11d8f3027ae9b4" -> "8f0faddfff2493e483ee9db174c08d6b"
    [] s = "t1_2026-01-01T00:00:00.002000_e8d4406b1fa35c27" -> "d876ac11e04f27b6bdac821a8fffbfa1"
    [] s = "t1_2026-01-01T00:00:00.003000_3f9a1c0de4b27a55" -> "ed7847ed1c191c564211935e9f8f49d8"
    [] s = "t1_2026-01-01T00:00:00.003000_a07be2219c4d6f10" -> "77a51ca544fe49ae7d48a04a04510287"
    [] s = "t1_2026-01-01T00:00:00.003000_5c11d8f3027ae9b4" -> "e0ef3ccf1b14e8aa3e32c8ddd59df14f"
    [] s = "t1_2026-01-01T00:00:00.003000_e8d4406b1fa35c27" -> "7617232804e36443e6b28cdfa4ceecf5"
    [] s = "t1_2026-01-01T00:00:00.004000_3f9a1c0de4b27a55" -> "f7675ba19905653f7298ec0516482977"
    [] s = "t1_2026-01-01T00:00:00.004000_a07be2219c4d6f10" -> "7a49a5e32436b52fc3057c30b7d2c1a3"
    [] s = "t1_2026-01-01T00:00:00.004000_5c11d8f3027ae9b4" -> "3e0cad515c6808639f565d43693e22e3"
    [] s = "t1_2026-01-01T00:00:00.004000_e8d4406b1fa35c27" -> "d6753f64fbb8eeffa2490391d9aa2a1b"
    [] s = "t1_2026-01-01T00:00:00.005000_3f9a1c0de4b27a55" -> "8d80cabea03a7ea53a40b687b6c4b5cd"
    [] s = "t1_2026-01-01T00:00:00.005000_a07be2219c4d6f10" -> "c4594f4dee898cea6754b64f2d67e0fd"
    [] s = "t1_2026-01-01T00:00:00.005000_5c11d8f3027ae9b4" -> "8eff420ff42485377308b5ae9f5d175a"
    [] s = "t1_2026-01-01T00:00:00.005000_e8d4406b1fa35c27" -> "b73434839a2df17c821c7bd99025358f"
    [] s = "t2_2026-01-01T00:00:00_3f9a1c0de4b27a55" -> "59e9497e126a92b1eccc60e6f0a08b00"
    [] s = "t2_2026-01-01T00:00:00_a07be2219c4d6f10" -> "0a1c1c17c0fcd229edbfce8497387554"
    [] s = "t2_2026-01-01T00:00:00_5c11d8f3027ae9b4" -> "c7202a86dc5b739b18e224beac20086e"
    [] s = "t2_2026-01-01T00:00:00_e8d4406b1fa35c27" -> "050f5ed4559ac056c96e807dbf1d9460"
    [] s = "t2_2026-01-01T00:00:00.001000_3f9a1c0de4b27a55" -> "3abe430858c3699235ee1a3a8f728c5c"
    [] s = "t2_2026-01-01T00:00:00.001000_a07be2219c4d6f10" -> "12a2bcfa6798d819d9f4f6fd9772d403"
    [] s = "t2_2026-01-01T00:00:00.001000_5c11d8f3027ae9b4" -> "ed644b086a0c9ec7bec454659f20d099"
    [] s = "t2_2026-01-01T00:00:00.001000_e8d4406b1fa35c27" -> "36b35b89cf830d32b23417d252867ac0"
    [] s = "t2_2026-01-01T00:00:00.002000_3f9a1c0de4b27a55" -> "3b267a568654af8e063181a120839f87"
    [] s = "t2_2026-01-01T00:00:00.002000_a07be2219c4d6f10" -> "6bde003025d2e51f31b963dd8a80f706"
    [] s = "t2_2026-01-01T00:00:00.002000_5c11d8f3027ae9b4" -> "3b1b29dc767f866f723969627201f55d"
    [] s = "t2_2026-01-01T00:00:00.002000_e8d4406b1fa35c27" -> "f41d97848e85f431eb144fb4f5a318b9"
    [] s = "t2_2026-01-01T00:00:00.003000_3f9a1c0de4b27a55" -> "752fd23cf15d8a635300496059e67e05"
    [] s = "t2_2026-01-01T00:00:00.003000_a07be2219c4d6f10" -> "31893cbc2485bf5e02afb02205b62273"
    [] s = "t2_2026-01-01T00:00:00.003000_5c11d8f3027ae9b4" -> "69eba93cac62a4d2946a1cc4ec196d8e"
    [] s = "t2_2026-01-01T00:00:00.003000_e8d4406b1fa35c27" -> "36ad2f3bf43cc406c455503912eb25d6"
    [] s = "t2_2026-01-01T00:00:00.004000_3f9a1c0de4b27a55" -> "2090e683313fc8480534465ba48e2fac"
    [] s = "t2_2026-01-01T00:00:00.004000_a07be2219c4d6f10" -> "ec059b93be9b88a3808c8cc89c3583d0"
    [] s = "t2_2026-01-01T00:00:00.004000_5c11d8f3027ae9b4" -> "68f4dc04dd7689bf08f43ab617bbbe6a"
    [] s = "t2_2026-01-01T00:00:00.004000_e8d4406b1fa35c27" -> "275bd9b64768ca1135699ff610308b8e"
    [] s = "t2_2026-01-01T00:00:00.005000_3f9a1c0de4b27a55" -> "6861cf4fc240a3fe0ab9e06156fc309f"
    [] s = "t2_2026-01-01T00:00:00.005000_a07be2219c4d6f10" -> "f2502fcd463e9945f3daaa720f8b0006"
    [] s = "t2_2026-01-01T00:00:00.005000_5c11d8f3027ae9b4" -> "0fb343246853bcab1f6622c35ea30c04"
    [] s = "t2_2026-01-01T00:00:00.005000_e8d4406b1fa35c27" -> "0e794e342b1a6ccf4facb8a9a1f7333c"
    [] s = "a1_2026-01-08T00:00:00.001000" -> "2101e37170da6f3423602648c721d870"
    [] s = "a1_2026-01-08T00:00:00.002000" -> "31b271b31da8b94b4219fc0bb3a50129"
    [] s = "a1_2026-01-08T00:00:00.003000" -> "0b72e16c18024c486a537025d71ff0c6"
    [] s = "a1_2026-01-15T00:00:00.001000" -> "b439fe2eba54b2f861f4e5f155b4c6e5"
    [] s = "a1_2026-01-15T00:00:00.002000" -> "57e55b2d3b7a5f8f0d5cedece39ec0a7"
    [] s = "a1_2026-01-15T00:00:00.003000" -> "44cdd4c13cd7948e8fed42fd9ada95ed"
    [] s = "a1_2026-01-22T00:00:00.001000" -> "16bcb176caa430450103bd5d7153f6f3"
    [] s = "a1_2026-01-22T00:00:00.002000" -> "c3f8954285111bb59f779ca089f37396"
    [] s = "a1_2026-01-22T00:00:00.003000" -> "58551c2c1f00382c98926a89dda43902"
    [] s = "a1_2026-01-29T00:00:00.001000" -> "f0ed050ad62a97cd579360c9ef416b64"
    [] s = "a1_2026-01-29T00:00:00.002000" -> "d42a2c3262a1609eb289802d5639ef2a"
    [] s = "a1_2026-01-29T00:00:00.003000" -> "d2318676df8dcefaad592fc61343ce73"
    [] s = "a2_2026-01-08T00:00:00.001000" -> "13c4980caac393bae35f3b3182a2d49d"
    [] s = "a2_2026-01-08T00:00:00.002000" -> "2dbe54da1295e3523826ad166ac25c7b"
    [] s = "a2_2026-01-08T00:00:00.003000" -> "0fa22dd6da130824888715605e5c2b44"
    [] s = "a2_2026-01-15T00:00:00.001000" -> "960031440e7bd4cfa2ae11f127249460"
    [] s = "a2_2026-01-15T00:00:00.002000" -> "899350615c9f9f7228091f05e5d4d15f"
    [] s = "a2_2026-01-15T00:00:00.003000" -> "7284259d7301f804f5b4f2d0ce414a7d"
    [] s = "a2_2026-01-22T00:00:00.001000" -> "03e00c5d4bbc13d2f7949d6bd85ee5a7"
    [] s = "a2_2026-01-22T00:00:00.002000" -> "4d0c1a48ffdc1f6c46775d7d9d94b1ed"
    [] s = "a2_2026-01-22T00:00:00.003000" -> "b19c1c408766cd957d831e3188bafd9f"
    [] s = "a2_2026-01-29T00:00:00.001000" -> "75ec4531a8fa9ff5d1035df95b8956b5"
    [] s = "a2_2026-01-29T00:00:00.002000" -> "cd2b725fd551a4ab4f1f195a2e152687"
    [] s = "a2_2026-01-29T00:00:00.003000" -> "7158a0a4aba3f3414a154197c17dc4db"
    [] s = "a1_2026-01-08T00:00:00" -> "23f90fa58b9f4c03f1f1135ce4309c8a"
    [] s = "a1_2026-01-15T00:00:00" -> "4eb6ffd7f483412fe1a6a3ca220efd45"
    [] s = "a1_2026-01-22T00:00:00" -> "feaa9e03550913db897e790f0348eca4"
    [] s = "a1_2026-01-29T00:00:00" -> "aab0b957bf753bca5ab0ea34a1bee0be"
    [] s = "a2_2026-01-08T00:00:00" -> "13055da2fbfacb288bfb0b96a7eaa1c1"
    [] s = "a2_2026-01-15T00:00:00" -> "d0386b03705586fdfed5a0c2b1c905d5"
    [] s = "a2_2026-01-22T00:00:00" -> "84b5313359ac8d2f40b1218fc65529bf"
    [] s = "a2_2026-01-29T00:00:00" -> "5ca739281b16ff2b7897691c0cd85e42"
    [] s = "t1_2026-01-02T00:00:00_3f9a1c0de4b27a55" -> "d3842d693cd8088034b04fb6809e6bea"
    [] s = "t1_2026-01-02T00:00:00_a07be2219c4d6f10" -> "61afa0e2b8de18bb1d64e00bccff4a72"
    [] s = "t1_2026-01-02T00:00:00_5c11d8f3027ae9b4" -> "a58e61cf707d4d5b6ca67808e804cb59"
    [] s = "t1_2026-01-02T00:00:00_e8d4406b1fa35c27" -> "454a612d55fd53d030f38c6fdfad3808"
    [] s = "t1_2026-01-03T00:00:00_3f9a1c0de4b27a55" -> "7857b2c64028808cecfa6f0e8670f51a"
    [] s = "t1_2026-01-03T00:00:00_a07be2219c4d6f10" -> "c8277c3ec6d4a3fee0d9019060b0e8d2"
    [] s = "t1_2026-01-03T00:00:00_5c11d8f3027ae9b4" -> "071e0fa5de90dfee883884d46a8f020c"
    [] s = "t1_2026-01-03T00:00:00_e8d4406b1fa35c27" -> "01ee030c4923dbc58c64413a9ee674ea"
    [] s = "t1_2026-01-02T00:00:00.001000_3f9a1c0de4b27a55" -> "efadea7d6dfdadaa1b8d3a9491ef0fd4"
    [] s = "t1_2026-01-02T00:00:00.001000_a07be2219c4d6f10" -> "d4cde0ba3ad649f153b3924a1c48f3d5"
    [] s = "t1_2026-01-02T00:00:00.001000_5c11d8f3027ae9b4" -> "1c4016ae9a2596f9dd1bb9a2045060b1"
    [] s = "t1_2026-01-02T00:00:00.001000_e8d4406b1fa35c27" -> "3fd06fd5f3c1b7b02d2c3735e678c2a8"
    [] s = "t1_2026-01-02T00:00:00.002000_3f9a1c0de4b27a55" -> "c7ee41fd30b3a824f9e64eae4562f4ab"
    [] s = "t1_2026-01-02T00:00:00.002000_a07be2219c4d6f10" -> "eb70d514d68aa094a7a4e0da37c6cd69"
    [] s = "t1_2026-01-02T00:00:00.002000_5c11d8f3027ae9b4" -> "2a02dc5f694d5ae4902c6e28245cfb51"
    [] s = "t1_2026-01-02T00:00:00.002000_e8d4406b1fa35c27" -> "d1b23284ea990c7fe7b8652efd9b7aa9"
    [] s = "t1_2026-01-02T00:00:00.003000_3f9a1c0de4b27a55" -> "2c2e78ecb8971d2d2262674f4f37b2a8"
    [] s = "t1_2026-01-02T00:00:00.003000_a07be2219c4d6f10" -> "f4b9d911c07e5360d70bc488c1a45cc4"
    [] s = "t1_2026-01-02T00:00:00.003000_5c11d8f3027ae9b4" -> "98ee350074a0c42c06101c9effb7baa0"
    [] s = "t1_2026-01-02T00:00:00.003000_e8d4406b1fa35c27" -> "4663487565b1026c11858f77b16699cf"
    [] s = "t1_2026-01-03T00:00:00.001000_3f9a1c0de4b27a55" -> "31d3839c1405e941e7beb5360f7dc6ab"
    [] s = "t1_2026-01-03T00:00:00.001000_a07be2219c4d6f10" -> "d6ef9856ab768e55599da36d17d9d807"
    [] s = "t1_2026-01-03T00:00:00.001000_5c11d8f3027ae9b4" -> "fb5e16e9640cc76c8d5c4c5d0996f35c"
    [] s = "t1_2026-01-03T00:00:00.001000_e8d4406b1fa35c27" -> "5e439f6742e2cda33e35de6778614f98"
    [] s = "t1_2026-01-03T00:00:00.002000_3f9a1c0de4b27a55" -> "291853709ec1dc7981808d5b3fef0b9c"
    [] s = "t1_2026-01-03T00:00:00.002000_a07be2219c4d6f10" -> "44dc50ae1e9d073c9ee957dc756c3aa0"
    [] s = "t1_2026-01-03T00:00:00.002000_5c11d8f3027ae9b4" -> "785fc1826368c6f285c72714d9fcc334"
    [] s = "t1_2026-01-03T00:00:00.002000_e8d4406b1fa35c27" -> "6711908d9d201f27dd091da4ffb2b7ac"
    [] s = "t1_2026-01-03T00:00:00.003000_3f9a1c0de4b27a55" -> "60895169cb8e9ef2d58c290b9e49d78d"
    [] s = "t1_2026-01-03T00:00:00.003000_a07be2219c4d6f10" -> "17639ef5cbb7e6791b9d10b17a793839"
    [] s = "t1_2026-01-03T00:00:00.003000_5c11d8f3027ae9b4" -> "5a8f52e5aba2fdb5eb58790d00450ca4"
    [] s = "t1_2026-01-03T00:00:00.003000_e8d4406b1fa35c27" -> "138ff0fc548dd04ab58bfd331055f5b3"
    [] s = "t1_2026-01-04T00:00:00.001000_3f9a1c0de4b27a55" -> "44d48dbde95e60a6bce366e92af297d8"
    [] s = "t1_2026-01-04T00:00:00.001000_a07be2219c4d6f10" -> "58097268b2f9f38d268dc98da1a8c90c"
    [] s = "t1_2026-01-04T00:00:00.001000_5c11d8f3027ae9b4" -> "d533e7469915c5e3d619e7751cabb6e3"
    [] s = "t1_2026-01-04T00:00:00.001000_e8d4406b1fa35c27" -> "d1e14dc63bdd62a318128bc4c8517bf4"
    [] s = "t1_2026-01-04T00:00:00.002000_3f9a1c0de4b27a55" -> "b7146e72c983aafcf4aff52dd5492819"
    [] s = "t1_2026-01-04T00:00:00.002000_a07be2219c4d6f10" -> "25ac6b2d7b4d1d785b486bd278084c7a"
    [] s = "t1_2026-01-04T00:00:00.002000_5c11d8f3027ae9b4" -> "949f9f1cb82aafb9bd278b2050c36513"
    [] s = "t1_2026-01-04T00:00:00.002000_e8d4406b1fa35c27" -> "02b362ceb225dfddb140a17984bed961"
    [] s = "t1_2026-01-04T00:00:00.003000_3f9a1c0de4b27a55" -> "df86bf201f397ab25573d425ffefda30"
    [] s = "t1_2026-01-04T00:00:00.003000_a07be2219c4d6f10" -> "11127dbeefe0fe5f52665cc2c5feb643"
    [] s = "t1_2026-01-04T00:00:00.003000_5c11d8f3027ae9b4" -> "8e0952381f57dc2083bc85d90fe77997"
    [] s = "t1_2026-01-04T00:00:00.003000_e8d4406b1fa35c27" -> "6dfc723e5d296686c2ba65ac65aa4b73"
    [] s = "t1_2026-01-04T00:00:00_3f9a1c0de4b27a55" -> "55772a79a8fe67d33caa3d85aee4583a"
    [] s = "t1_2026-01-04T00:00:00_a07be2219c4d6f10" -> "2b05fd8a85f61593f5844c34977fd677"
    [] s = "t1_2026-01-04T00:00:00_5c11d8f3027ae9b4" -> "1ca24f63cf6a9420b7bd143d0ef8289a"
    [] s = "t1_2026-01-04T00:00:00_e8d4406b1fa35c27" -> "c3ee7c5cea44fd2be785ab5ae01bd47a"
    [] s = "t1_2026-01-05T00:00:00_3f9a1c0de4b27a55" -> "60ca14e10dcb5b8ef1e7025834b5f5d3"
    [] s = "t1_2026-01-05T00:00:00_a07be2219c4d6f10" -> "757383622970b243a181efa4e76850be"
    [] s = "t1_2026-01-05T00:00:00_5c11d8f3027ae9b4" -> "31fb3f8ea7ac5f61526f17728001b351"
    [] s = "t1_2026-01-05T00:00:00_e8d4406b1fa35c27" -> "caa0f839dda986344f577cad3e855776"
    [] s = "t2_2026-01-02T00:00:00_3f9a1c0de4b27a55" -> "651cce8be9a2e2f4a776cfefe0c569c0"
    [] s = "t2_2026-01-02T00:00:00_a07be2219c4d6f10" -> "fe6b6d0234791a231869b8ffac160837"
    [] s = "t2_2026-01-02T00:00:00_5c11d8f3027ae9b4" -> "fb041db99e783ef53befdcc9e2fd2900"
    [] s = "t2_2026-01-02T00:00:00_e8d4406b1fa35c27" -> "87b0ea60b7cb440a3c86c74227f15c49"
    [] s = "t2_2026-01-03T00:00:00_3f9a1c0de4b27a55" -> "b67995c1d4eb3c44a563bef3c1af669c"
    [] s = "t2_2026-01-03T00:00:00_a07be2219c4d6f10" -> "565a2d3609183d34a139f65e7e17f35b"
    [] s = "t2_2026-01-03T00:00:00_5c11d8f3027ae9b4" -> "e32f29ba653f788f61bae241df96b7ba"
    [] s = "t2_2026-01-03T00:00:00_e8d4406b1fa35c27" -> "0ab6aa21d73840b747b2483df390f097"
    [] s = "t2_2026-01-04T00:00:00_3f9a1c0de4b27a55" -> "998075eed154dcb4e2ddae18a26c047a"
    [] s = "t2_2026-01-04T00:00:00_a07be2219c4d6f10" -> "75b30d3fd59c91b8f51b3fb52cb27e5d"
    [] s = "t2_2026-01-04T00:00:00_5c11d8f3027ae9b4" -> "ebcae7ca30f7c85c7b9c2df7f168c0f4"
    [] s = "t2_2026-01-04T00:00:00_e8d4406b1fa35c27" -> "9ee10a8335c745e6c05af1fd54e1fd2d"
    [] s = "t2_2026-01-05T00:00:00_3f9a1c0de4b27a55" -> "14fd744f2bb55eea8e4247a26fdb1fba"
    [] s = "t2_2026-01-05T00:00:00_a07be2219c4d6f10" -> "963f5fe2021acf67e12d8f425e29e26c"
    [] s = "t2_2026-01-05T00:00:00_5c11d8f3027ae9b4" -> "81ecfbac7b7a3de36937ff6a226d9e53"
    [] s = "t2_2026-01-05T00:00:00_e8d4406b1fa35c27" -> "3e677984eea59e27d0409afdb00d691d"

\* os.urandom(8).hex(): the salts the model draws from.
SaltValues ==
    <<"3f9a1c0de4b27a55", "a07be2219c4d6f10", "5c11d8f3027ae9b4", "e8d4406b1fa35c27">>
Salts == {SaltValues[i] : i \in 1..NumSalts}

----------------------------------------------------------------------------
(* Keys (RedisMemoryStore.prefixes, LangGraphRedisCheckpointer prefixes).   *)

\* One conversation key for every agent.
ConversationKeyOfAll(agent_id) == "meshnet:conv:" \o "all"

ConversationKey(agent_id) == "meshnet:conv:" \o agent_id
DecisionKey(decision_id) == "meshnet:decision:" \o decision_id
DecisionIndexKey(agent_id) == "meshnet:decision:" \o "index:" \o agent_id
AgentStateKey(agent_id) == "meshnet:state:" \o agent_id
CheckpointKey(checkpoint_id) == "langgraph:checkpoint:" \o checkpoint_id
\* One index key for the checkpoints of all threads.
ThreadKeyShared(thread_id) == "langgraph:thread:"
ThreadKey(thread_id) == "langgraph:thread:" \o thread_id
MetadataKey(checkpoint_id) == "langgraph:metadata:" \o checkpoint_id

ConversationTTL == 30 * 24 * 3600
DecisionTTL == 7 * 24 * 3600
CheckpointTTL == 24 * 3600

----------------------------------------------------------------------------
(* Clients.                                                                *)

Idle == [op |-> "none"]

Init ==
    /\ db = <<>>
    /\ ttl = <<>>
    /\ now = 0
    /\ pc = [p \in Clients |-> "idle"]
    /\ frame = [p \in Clients |-> Idle]
    /\ last = [call |-> Idle, ret |-> None, error |-> FALSE]
    /\ log = <<>>
    /\ untrimmed = <<>>
    /\ issued = {}
    /\ failures = 0
    /\ ncalls = 0

\* Client p begins a call: its frame is f and its first command is at label.
Call(p, label, f) ==
    /\ pc[p] = "idle"
    /\ ncalls < MaxOps
    /\ ncalls' = ncalls + 1
    /\ pc' = [pc EXCEPT ![p] = label]
    /\ frame' = [frame EXCEPT ![p] = f]
    /\ UNCHANGED <<last, log>>

\* Client p moves to its next command with frame f.
Goto(p, label, f) ==
    /\ pc' = [pc EXCEPT ![p] = label]
    /\ frame' = [frame EXCEPT ![p] = f]
    /\ UNCHANGED <<last, log, ncalls>>

\* Client p's call returns r; f is its frame at the return.
ReturnFrom(p, f, r) ==
    /\ pc' = [pc EXCEPT ![p] = "idle"]
    /\ frame' = [frame EXCEPT ![p] = Idle]
    /\ last' = [call |-> f, ret |-> r, error |-> FALSE]
    /\ UNCHANGED ncalls

Return(p, r) == ReturnFrom(p, frame[p], r)

\* Client p's call returns r from its except branch.
Raise(p, r) ==
    /\ pc' = [pc EXCEPT ![p] = "idle"]
    /\ frame' = [frame EXCEPT ![p] = Idle]
    /\ last' = [call |-> frame[p], ret |-> r, error |-> TRUE]
    /\ UNCHANGED ncalls

LogOf(key) == IF key \in DOMAIN log THEN log[key] ELSE <<>>

\* A store call that added member m under key returns success.
Logged(key, m) ==
    log' = [k \in DOMAIN log \cup {key} |-> IF k = key THEN Append(LogOf(key), m) ELSE log[k]]

\* The keyspace and expiry table after a command: a key that is gone has no TTL.
Store(d, e) ==
    /\ db' = d
    /\ ttl' = [k \in DOMAIN e \cap DOMAIN d |-> e[k]]

Untrimmed(key) == IF key \in DOMAIN untrimmed THEN untrimmed[key] ELSE 0

SetUntrimmed(key, n) ==
    untrimmed' = [k \in DOMAIN untrimmed \cup {key} |-> IF k = key THEN n ELSE untrimmed[k]]

\* ZADD of one member by a store call: counts the insert until the next trim.
Inserted(d, key) ==
    SetUntrimmed(key, Untrimmed(key) + (ZCard(d, key) - ZCard(db, key)))

----------------------------------------------------------------------------
(* LangGraphMemoryManager: what its two methods build, and where they go    *)
(* on when a method they call returns.                                     *)

ManagerAgent == "langgraph_agent"

\* dict.get(name, default) on a dict given as its items.
DictGet(d, name, default) ==
    LET hits == {i \in 1..Len(d) : d[i].k.ty = "str" /\ d[i].k.s = name}
    IN  IF hits = {} THEN default ELSE d[CHOOSE i \in hits : TRUE].v

\* repr of a str or int scalar.
ReprScalar(x) == IF x.ty = "str" THEN "'" \o x.s \o "'" ELSE x.s

RECURSIVE ReprItems(_, _)
ReprItems(d, i) ==
    IF i > Len(d) THEN ""
    ELSE (IF i > 1 THEN ", " ELSE "")
         \o ReprScalar(d[i].k) \o ": " \o ReprScalar(d[i].v) \o ReprItems(d, i + 1)

\* str(state)[:200] of a dict of scalars.
StateSummary(state) ==
    LET s == "{" \o ReprItems(state, 1) \o "}"
    IN  IF Len(s) > SummaryLength THEN SubSeq(s, 1, SummaryLength) ELSE s

\* complete_state of save_agent_state, its timestamp read at tick t.
CompleteState(state, conversation_history, thread_id, t) ==
    <<Item(PyStr("agent_state"), state),
      Item(PyStr("conversation_history"), conversation_history),
      Item(PyStr("memory_context"),
           <<Item(PyStr("thread_id"), PyStr(thread_id)),
             Item(PyStr("timestamp"), PyStr(IsoFormat(t)))>>)>>

\* json.dumps followed by json.loads of complete_state: the keys of the
\* nested agent_state come back as str too; the history entries were parsed
\* from JSON and the memory context has str keys.
JsonComplete(d) ==
    [i \in 1..Len(d) |->
        Item(PyStr(d[i].k.s),
             IF d[i].k.s = "agent_state" THEN JsonDict(d[i].v) ELSE d[i].v)]

\* conversation_data of save_agent_state.
StateCheckpoint(f) ==
    <<Item(PyStr("type"), PyStr("state_checkpoint")),
      Item(PyStr("checkpoint_id"), PyStr(f.checkpoint_id)),
      Item(PyStr("thread_id"), PyStr(f.thread_id)),
      Item(PyStr("state_summary"), PyStr(StateSummary(f.state)))>>

\* The frame of a store_conversation the manager calls with data.
ManagerStore(f, data) ==
    [op |-> f.op, agent_id |-> ManagerAgent, data |-> data,
     timestamp |-> IsoFormat(now), thread_id |-> f.thread_id,
     checkpoint_id |-> f.checkpoint_id, state |-> f.state, metadata |-> f.metadata,
     restored |-> f.restored, replay |-> f.replay, stored |-> f.stored,
     failed |-> f.failed]

\* A result that counts no restored conversation.
RestoredAgentStateUncounted(f) ==
    [agent_state |-> DictGet(f.restored.state, "agent_state", <<>>),
     restored_conversations |-> 0,
     checkpoint_metadata |-> f.restored.metadata,
     thread_id |-> f.restored.thread_id, timestamp |-> f.restored.timestamp]

\* The dict restore_agent_state returns.
RestoredAgentState(f) ==
    [agent_state |-> DictGet(f.restored.state, "agent_state", <<>>),
     restored_conversations |->
        Len(DictGet(f.restored.state, "conversation_history", <<>>)),
     checkpoint_metadata |-> f.restored.metadata,
     thread_id |-> f.restored.thread_id, timestamp |-> f.restored.timestamp]

\* The loop of restore_agent_state over the bundled conversations: the next
\* store_conversation, or the return after the last.
RestoreAgentStateNext(p, f) ==
    IF f.replay = <<>>
    THEN ReturnFrom(p, f, Some(RestoredAgentState(f)))
    ELSE /\ pc' = [pc EXCEPT ![p] = "sc_zadd"]
         /\ frame' = [frame EXCEPT ![p] = ManagerStore(f, Head(f.replay).data)]
         /\ UNCHANGED <<last, ncalls>>

\* A wrapper that raises when its save_checkpoint returned None.
WrapperResultOfSave(f, r) ==
    IF r = None THEN [kind |-> "raise", value |-> PyStr("checkpoint not saved")]
    ELSE f.outcome

\* What the wrapper of checkpoint_decorator hands to its caller after its
\* save_checkpoint returned r: `return result` or `raise`, r is not looked at.
WrapperResult(f, r) == f.outcome

\* save_checkpoint returns r: to its caller, into save_agent_state, which
\* stores the state_checkpoint conversation when r is an id, or into the
\* wrapper of checkpoint_decorator.
SaveCheckpointReturn(p, f, r) ==
    IF f.op = "save_agent_state"
    THEN /\ pc' = [pc EXCEPT ![p] = "sc_zadd"]
         /\ frame' = [frame EXCEPT ![p] = ManagerStore(f, StateCheckpoint(f))]
         /\ UNCHANGED <<last, ncalls>>
    ELSE IF f.op = "checkpoint_wrapper"
    THEN ReturnFrom(p, f, WrapperResult(f, r))
    ELSE ReturnFrom(p, f, r)

\* store_conversation returns: to its caller, or into the manager method
\* that called it, which ignores the result.
StoreConversationReturn(p, f) ==
    IF f.op = "save_agent_state" THEN ReturnFrom(p, f, Some(f.checkpoint_id))
    ELSE IF f.op = "restore_agent_state"
    THEN RestoreAgentStateNext(p, [f EXCEPT !.replay = Tail(@), !.stored = @ + 1])
    ELSE ReturnFrom(p, f, TRUE)

\* restore_from_checkpoint returns r: to its caller, or into
\* restore_agent_state (`if restored_data:`).
RestoreFromCheckpointReturn(p, f, r) ==
    IF f.op # "restore_agent_state" THEN ReturnFrom(p, f, r)
    ELSE IF r = None THEN ReturnFrom(p, f, None)
    ELSE RestoreAgentStateNext(p,
            [f EXCEPT !.restored = r[1],
                      !.replay = DictGet(r[1].state, "conversation_history", <<>>)])

----------------------------------------------------------------------------
(* RedisMemoryStore.store_conversation                                     *)

StoreConversationCall(p, agent_id, data) ==
    /\ Call(p, "sc_zadd", [op |-> "store_conversation", agent_id |-> agent_id,
                           data |-> data, timestamp |-> IsoFormat(now)])
    /\ UNCHANGED <<db, ttl, now, untrimmed, issued, failures>>

\* json.dumps(conversation_entry)
ConversationEntry(f) ==
    [timestamp |-> f.timestamp, data |-> JsonDict(f.data), agent_id |-> f.agent_id]

\* A trim that leaves one entry more than the bound.
TrimConversationsLate(d, key) ==
    ZRemRangeByRank(d, key, 0, 0 - (MaxConversations + 2), "conversation")

\* zremrangebyrank(key, 0, -1001): all but the MaxConversations highest ranks.
TrimConversations(d, key) ==
    ZRemRangeByRank(d, key, 0, 0 - (MaxConversations + 1), "conversation")

StoreConversationZadd(p) ==
    LET f == frame[p]
        key == ConversationKey(f.agent_id)
        d == ZAdd(db, key, ConversationEntry(f), Timestamp(now))
    IN  /\ pc[p] = "sc_zadd"
        /\ ~WrongType(db, key, "zset")
        /\ Store(d, ttl)
        /\ Inserted(d, key)
        /\ Goto(p, "sc_trim", f)
        /\ UNCHANGED <<now, issued, failures>>

StoreConversationTrim(p) ==
    LET f == frame[p]
        key == ConversationKey(f.agent_id)
    IN  /\ pc[p] = "sc_trim"
        /\ ~WrongType(db, key, "zset")
        /\ Store(TrimConversations(db, key), ttl)
        /\ SetUntrimmed(key, 0)
        /\ Goto(p, "sc_expire", f)
        /\ UNCHANGED <<now, issued, failures>>

StoreConversationExpire(p) ==
    LET f == frame[p]
        key == ConversationKey(f.agent_id)
    IN  /\ pc[p] = "sc_expire"
        /\ Store(db, IF Exists(db, key) THEN SetTtl(ttl, key, now, ConversationTTL) ELSE ttl)
        /\ StoreConversationReturn(p, f)
        /\ Logged(key, ConversationEntry(f))
        /\ UNCHANGED <<now, untrimmed, issued, failures>>

----------------------------------------------------------------------------
(* RedisMemoryStore.get_conversation_history                               *)

GetConversationHistoryCall(p, agent_id, limit) ==
    /\ Call(p, "gh_zrevrange", [op |-> "get_conversation_history",
                                agent_id |-> agent_id, limit |-> limit])
    /\ UNCHANGED <<db, ttl, now, untrimmed, issued, failures>>

\* zrevrange(key, 0, limit - 1), each member through json.loads.
ConversationHistory(d, agent_id, limit) ==
    ZRevRange(d, ConversationKey(agent_id), 0, limit - 1, "conversation")

GetConversationHistoryZrevrange(p) ==
    LET f == frame[p]
    IN  /\ pc[p] = "gh_zrevrange"
        /\ ~WrongType(db, ConversationKey(f.agent_id), "zset")
        /\ Return(p, ConversationHistory(db, f.agent_id, f.limit))
        /\ UNCHANGED <<db, ttl, now, log, untrimmed, issued, failures>>

----------------------------------------------------------------------------
(* RedisMemoryStore.store_decision                                         *)

StoreDecisionCall(p, agent_id, data) ==
    /\ Call(p, "sd_setex", [op |-> "store_decision", agent_id |-> agent_id, data |-> data,
                            decision_id |-> Md5Hex(agent_id \o "_" \o IsoFormat(now))])
    /\ UNCHANGED <<db, ttl, now, untrimmed, issued, failures>>

\* json.dumps(decision_entry), its timestamp read at tick t.
DecisionEntry(f, t) ==
    [timestamp |-> IsoFormat(t), agent_id |-> f.agent_id,
     decision_id |-> f.decision_id, data |-> JsonDict(f.data)]

\* zremrangebyrank(agent_decisions_key, 0, -501): all but the MaxDecisions highest ranks.
TrimDecisions(d, key) ==
    ZRemRangeByRank(d, key, 0, 0 - (MaxDecisions + 1), "id")

\* The log keeps the arguments of the call and the time of the write under
\* the content key.
StoreDecisionSetex(p) ==
    LET f == frame[p]
        key == DecisionKey(f.decision_id)
    IN  /\ pc[p] = "sd_setex"
        /\ Store(SetStr(db, key, DecisionEntry(f, now)), SetTtl(ttl, key, now, DecisionTTL))
        /\ pc' = [pc EXCEPT ![p] = "sd_zadd"]
        /\ Logged(key, [agent_id |-> f.agent_id, data |-> f.data, at |-> now])
        /\ UNCHANGED <<frame, last, ncalls, now, untrimmed, issued, failures>>

StoreDecisionZadd(p) ==
    LET f == frame[p]
        key == DecisionIndexKey(f.agent_id)
        d == ZAdd(db, key, f.decision_id, Timestamp(now))
    IN  /\ pc[p] = "sd_zadd"
        /\ ~WrongType(db, key, "zset")
        /\ Store(d, ttl)
        /\ Inserted(d, key)
        /\ Goto(p, "sd_trim", f)
        /\ UNCHANGED <<now, issued, failures>>

StoreDecisionTrim(p) ==
    LET f == frame[p]
        key == DecisionIndexKey(f.agent_id)
    IN  /\ pc[p] = "sd_trim"
        /\ ~WrongType(db, key, "zset")
        /\ Store(TrimDecisions(db, key), ttl)
        /\ SetUntrimmed(key, 0)
        /\ Return(p, TRUE)
        /\ Logged(key, f.decision_id)
        /\ UNCHANGED <<now, issued, failures>>

----------------------------------------------------------------------------
(* RedisMemoryStore.get_recent_decisions                                   *)

GetRecentDecisionsCall(p, agent_id, limit) ==
    /\ Call(p, "gd_zrevrange", [op |-> "get_recent_decisions",
                                agent_id |-> agent_id, limit |-> limit])
    /\ UNCHANGED <<db, ttl, now, untrimmed, issued, failures>>

\* The ids read from the low end of the index.
RecentDecisionIdsOldest(d, agent_id, limit) ==
    ZRange(d, DecisionIndexKey(agent_id), 0, limit - 1, "id")

\* zrevrange(agent_decisions_key, 0, limit - 1)
RecentDecisionIds(d, agent_id, limit) ==
    ZRevRange(d, DecisionIndexKey(agent_id), 0, limit - 1, "id")

\* One turn of the loop over decision_ids: GET, json.loads, append when present.
FetchDecision(d, decisions, decision_id) ==
    LET got == Get(d, DecisionKey(decision_id))
    IN  IF got # None THEN Append(decisions, got[1]) ELSE decisions

\* The loop over decision_ids, fetch after fetch.
RECURSIVE FetchDecisions(_, _, _)
FetchDecisions(d, decisions, decision_ids) ==
    IF decision_ids = <<>> THEN decisions
    ELSE FetchDecisions(d, FetchDecision(d, decisions, Head(decision_ids)), Tail(decision_ids))

\* What get_recent_decisions(agent_id, limit) returns when no other command
\* comes between its reads.
RecentDecisions(d, agent_id, limit) ==
    FetchDecisions(d, <<>>, RecentDecisionIds(d, agent_id, limit))

GetRecentDecisionsZrevrange(p) ==
    LET f == frame[p]
        ids == RecentDecisionIds(db, f.agent_id, f.limit)
    IN  /\ pc[p] = "gd_zrevrange"
        /\ ~WrongType(db, DecisionIndexKey(f.agent_id), "zset")
        /\ IF ids = <<>>
           THEN Return(p, <<>>) /\ UNCHANGED log
           ELSE Goto(p, "gd_get", [op |-> f.op, agent_id |-> f.agent_id, limit |-> f.limit,
                                   decision_ids |-> ids, decisions |-> <<>>])
        /\ UNCHANGED <<db, ttl, now, untrimmed, issued, failures>>

GetRecentDecisionsGet(p) ==
    LET f == frame[p]
        decisions == FetchDecision(db, f.decisions, Head(f.decision_ids))
    IN  /\ pc[p] = "gd_get"
        /\ IF Len(f.decision_ids) = 1
           THEN Return(p, decisions) /\ UNCHANGED log
           ELSE Goto(p, "gd_get", [f EXCEPT !.decision_ids = Tail(@), !.decisions = decisions])
        /\ UNCHANGED <<db, ttl, now, untrimmed, issued, failures>>

----------------------------------------------------------------------------
(* RedisMemoryStore.store_agent_state / get_agent_state                    *)

\* json.dumps(state_entry), its timestamp read at tick t.
AgentStateEntry(agent_id, data, t) ==
    [timestamp |-> IsoFormat(t), agent_id |-> agent_id, state |-> JsonDict(data)]

StoreAgentStateCall(p, agent_id, data) ==
    /\ Call(p, "ss_set", [op |-> "store_agent_state", agent_id |-> agent_id, data |-> data])
    /\ UNCHANGED <<db, ttl, now, untrimmed, issued, failures>>

StoreAgentStateSet(p) ==
    LET f == frame[p]
        key == AgentStateKey(f.agent_id)
    IN  /\ pc[p] = "ss_set"
        /\ Store(SetStr(db, key, AgentStateEntry(f.agent_id, f.data, now)), ClearTtl(ttl, key))
        /\ Return(p, TRUE)
        /\ UNCHANGED <<now, log, untrimmed, issued, failures>>

GetAgentStateCall(p, agent_id) ==
    /\ Call(p, "gs_get", [op |-> "get_agent_state", agent_id |-> agent_id])
    /\ UNCHANGED <<db, ttl, now, untrimmed, issued, failures>>

AgentState(d, agent_id) == Get(d, AgentStateKey(agent_id))

GetAgentStateGet(p) ==
    /\ pc[p] = "gs_get"
    /\ ~WrongType(db, AgentStateKey(frame[p].agent_id), "string")
    /\ Return(p, AgentState(db, frame[p].agent_id))
    /\ UNCHANGED <<db, ttl, now, log, untrimmed, issued, failures>>

----------------------------------------------------------------------------
(* RedisMemoryStore.search_memory                                          *)

\* query.lower() in json.dumps(record).lower()
Matches(query, text) == Contains(Lower(text), Lower(query))

ConversationHit(conv) == [type |-> "conversation", relevance |-> "high", data |-> conv]
DecisionHit(decision) == [type |-> "decision", relevance |-> "medium", data |-> decision]

\* results grown by the loop over the conversations / the decisions.
RECURSIVE ConversationHits(_, _)
ConversationHits(query, conversations) ==
    IF conversations = <<>> THEN <<>>
    ELSE (IF Matches(query, ConversationText(Head(conversations)))
          THEN <<ConversationHit(Head(conversations))>> ELSE <<>>)
         \o ConversationHits(query, Tail(conversations))

RECURSIVE DecisionHits(_, _)
DecisionHits(query, decisions) ==
    IF decisions = <<>> THEN <<>>
    ELSE (IF Matches(query, DecisionText(Head(decisions)))
          THEN <<DecisionHit(Head(decisions))>> ELSE <<>>)
         \o DecisionHits(query, Tail(decisions))

\* The results without the cut at limit.
Uncut(s, n) == s

\* results[:limit]
Prefix(s, n) == SubSeq(s, 1, IF n < Len(s) THEN n ELSE Len(s))

\* component_id of LangflowRedisComponent, the agent id of its searches.
ComponentId == "langflow_meshnet"

\* The greatest timestamp among the hits of a search, None when there is none:
\* last_execution of get_workflow_analytics.
RECURSIVE LastExecution(_, _)
LastExecution(hits, latest) ==
    IF hits = <<>> THEN latest
    ELSE LET timestamp == Head(hits).data.timestamp
         IN  LastExecution(Tail(hits),
                           IF latest = None \/ StrLess(latest[1], timestamp)
                           THEN Some(timestamp) ELSE latest)

\* analytics of get_workflow_analytics over the hits of its search.  A hit is
\* a conversation or a decision entry, which has no 'result': no hit counts
\* as successful, has a duration or an error.
WorkflowAnalytics(workflow_id, workflow_executions) ==
    [workflow_id |-> workflow_id,
     total_executions |-> Len(workflow_executions),
     success_rate |-> 0, average_duration |-> 0,
     last_execution |-> LastExecution(workflow_executions, None),
     common_errors |-> <<>>]

\* search_memory returns r: to its caller, or into get_workflow_analytics.
SearchMemoryReturn(p, f, r) ==
    IF f.op = "get_workflow_analytics"
    THEN ReturnFrom(p, f, WorkflowAnalytics(f.workflow_id, r))
    ELSE ReturnFrom(p, f, r)

\* A search without an agent id that reads the conversations of every agent.
AllAgentsConversations(d, limit) ==
    ConversationHistory(d, "a1", limit * 2) \o ConversationHistory(d, "a2", limit * 2)

\* conversations of a search without an agent id: the empty list.
NoAgentConversations(d, limit) == <<>>

\* agent is None or Some(agent_id).  Without an agent id the method issues no
\* command: it returns results[:limit] of the empty list at once.
\* failed tells that a read made on behalf of the search logged a backend error.
SearchMemoryCall(p, query, agent, limit) ==
    LET f == [op |-> "search_memory", query |-> query, agent |-> agent, limit |-> limit,
              results |-> <<>>, decision_ids |-> <<>>, decisions |-> <<>>,
              failed |-> FALSE]
    IN  /\ IF agent = None
           THEN /\ pc[p] = "idle"
                /\ ncalls < MaxOps
                /\ ncalls' = ncalls + 1
                /\ last' = [call |-> f,
                            ret |-> Prefix(ConversationHits(query,
                                                            NoAgentConversations(db, limit)),
                                           limit),
                            error |-> FALSE]
                /\ UNCHANGED <<pc, frame, log>>
           ELSE Call(p, "sm_conv", f)
        /\ UNCHANGED <<db, ttl, now, untrimmed, issued, failures>>

\* LangflowMemoryNode.search_memory(query, limit): initialized tells whether
\* initialize() has set the node's component.  The node passes no agent id,
\* so the search it calls issues no command.
NodeSearchMemoryCall(p, query, limit, initialized) ==
    LET f == [op |-> "node_search_memory", query |-> query, limit |-> limit,
              initialized |-> initialized]
        results == Prefix(ConversationHits(query, NoAgentConversations(db, limit)), limit)
    IN  /\ pc[p] = "idle"
        /\ ncalls < MaxOps
        /\ ncalls' = ncalls + 1
        /\ last' = [call |-> f,
                    ret |-> IF initialized
                            THEN [success |-> TRUE, results |-> results, query |-> query,
                                  count |-> Len(results), timestamp |-> IsoFormat(now)]
                            ELSE [success |-> FALSE, error |-> "Component not initialized"],
                    error |-> FALSE]
        /\ UNCHANGED <<pc, frame, log, db, ttl, now, untrimmed, issued, failures>>

\* get_conversation_history(agent_id, limit * 2), then the loop over its result.
SearchMemoryConversations(p) ==
    LET f == frame[p]
        conversations == ConversationHistory(db, f.agent[1], f.limit * 2)
    IN  /\ pc[p] = "sm_conv"
        /\ ~WrongType(db, ConversationKey(f.agent[1]), "zset")
        /\ Goto(p, "sm_zrevrange", [f EXCEPT !.results = ConversationHits(f.query, conversations)])
        /\ UNCHANGED <<db, ttl, now, untrimmed, issued, failures>>

\* get_recent_decisions(agent_id, limit * 2): the index read.  With no id
\* there is nothing to fetch and the method returns results[:limit].
SearchMemoryZrevrange(p) ==
    LET f == frame[p]
        ids == RecentDecisionIds(db, f.agent[1], f.limit * 2)
    IN  /\ pc[p] = "sm_zrevrange"
        /\ ~WrongType(db, DecisionIndexKey(f.agent[1]), "zset")
        /\ IF ids = <<>>
           THEN SearchMemoryReturn(p, f, Prefix(f.results, f.limit)) /\ UNCHANGED log
           ELSE Goto(p, "sm_get", [f EXCEPT !.decision_ids = ids])
        /\ UNCHANGED <<db, ttl, now, untrimmed, issued, failures>>

\* get_recent_decisions(agent_id, limit * 2): one content read; after the
\* last one, the loop over the decisions and the return of results[:limit].
SearchMemoryGet(p) ==
    LET f == frame[p]
        decisions == FetchDecision(db, f.decisions, Head(f.decision_ids))
    IN  /\ pc[p] = "sm_get"
        /\ IF Len(f.decision_ids) = 1
           THEN /\ SearchMemoryReturn(p, f, Prefix(f.results \o DecisionHits(f.query, decisions),
                                                   f.limit))
                /\ UNCHANGED log
           ELSE Goto(p, "sm_get", [f EXCEPT !.decision_ids = Tail(@), !.decisions = decisions])
        /\ UNCHANGED <<db, ttl, now, untrimmed, issued, failures>>

----------------------------------------------------------------------------
(* RedisMemoryStore.clear_agent_memory                                     *)

\* A pattern list that forgets the state key.
ClearPatternsWithoutState(agent_id) ==
    <<ConversationKey(agent_id), DecisionIndexKey(agent_id)>>

\* patterns: the conversation key, the decision index and the state key.
ClearPatterns(agent_id) ==
    <<ConversationKey(agent_id), DecisionIndexKey(agent_id), AgentStateKey(agent_id)>>

\* referenced: the decision ids the agent's index held when the call began.
ClearAgentMemoryCall(p, agent_id) ==
    /\ Call(p, "ca_exists",
            [op |-> "clear_agent_memory", agent_id |-> agent_id,
             patterns |-> ClearPatterns(agent_id), deleted_count |-> 0,
             decision_ids |-> <<>>,
             referenced |-> {x.m : x \in ZSetOf(db, DecisionIndexKey(agent_id))}])
    /\ UNCHANGED <<db, ttl, now, untrimmed, issued, failures>>

\* After the loop over patterns comes the index read.
AfterPattern(f) == IF Len(f.patterns) = 1 THEN "ca_zrange" ELSE "ca_exists"

\* if self.redis_client.exists(pattern)
ClearAgentMemoryExists(p) ==
    LET f == frame[p]
    IN  /\ pc[p] = "ca_exists"
        /\ IF Exists(db, Head(f.patterns))
           THEN Goto(p, "ca_delete", f)
           ELSE Goto(p, AfterPattern(f), [f EXCEPT !.patterns = Tail(@)])
        /\ UNCHANGED <<db, ttl, now, untrimmed, issued, failures>>

\* self.redis_client.delete(pattern); deleted_count += 1
ClearAgentMemoryDelete(p) ==
    LET f == frame[p]
    IN  /\ pc[p] = "ca_delete"
        /\ Store(Del(db, Head(f.patterns)), ttl)
        /\ Goto(p, AfterPattern(f),
                [f EXCEPT !.patterns = Tail(@), !.deleted_count = @ + 1])
        /\ UNCHANGED <<now, untrimmed, issued, failures>>

\* A result that tells whether a key was removed.
ClearAgentMemoryRemoved(f) == f.deleted_count > 0

\* return True: deleted_count goes to the log only.
ClearAgentMemoryResult(f) == TRUE

\* The method returns once the loop over decision_ids is through.
ClearAgentMemoryNext(p, f) ==
    IF f.decision_ids = <<>>
    THEN ReturnFrom(p, f, ClearAgentMemoryResult(f)) /\ UNCHANGED log
    ELSE Goto(p, "ca_dexists", f)

\* decision_ids = zrange(agent_decisions_key, 0, -1)
ClearAgentMemoryZrange(p) ==
    LET f == frame[p]
        key == DecisionIndexKey(f.agent_id)
    IN  /\ pc[p] = "ca_zrange"
        /\ ~WrongType(db, key, "zset")
        /\ ClearAgentMemoryNext(p, [f EXCEPT !.decision_ids = ZRange(db, key, 0, -1, "id")])
        /\ UNCHANGED <<db, ttl, now, untrimmed, issued, failures>>

\* if self.redis_client.exists(decision_key)
ClearAgentMemoryDecisionExists(p) ==
    LET f == frame[p]
    IN  /\ pc[p] = "ca_dexists"
        /\ IF Exists(db, DecisionKey(Head(f.decision_ids)))
           THEN Goto(p, "ca_ddelete", f)
           ELSE ClearAgentMemoryNext(p, [f EXCEPT !.decision_ids = Tail(@)])
        /\ UNCHANGED <<db, ttl, now, untrimmed, issued, failures>>

\* self.redis_client.delete(decision_key); deleted_count += 1
ClearAgentMemoryDecisionDelete(p) ==
    LET f == frame[p]
    IN  /\ pc[p] = "ca_ddelete"
        /\ Store(Del(db, DecisionKey(Head(f.decision_ids))), ttl)
        /\ ClearAgentMemoryNext(p, [f EXCEPT !.decision_ids = Tail(@), !.deleted_count = @ + 1])
        /\ UNCHANGED <<now, untrimmed, issued, failures>>

----------------------------------------------------------------------------
(* RedisMemoryStore.store_context / get_context                            *)

ContextKey(context_id) == "meshnet:ctx:" \o context_id

\* json.dumps(context_entry)
ContextEntry(f) ==
    [timestamp |-> f.timestamp, data |-> JsonDict(f.data), context_id |-> f.context_id]

\* An expiry that ignores the caller's ttl and takes the default of 3600 s.
ContextExpiryDefault(f) == 3600

\* The ttl handed to setex.
ContextExpiry(f) == f.ttl

StoreContextCall(p, context_id, data, secs) ==
    /\ Call(p, "sx_setex", [op |-> "store_context", context_id |-> context_id,
                            data |-> data, ttl |-> secs, timestamp |-> IsoFormat(now)])
    /\ UNCHANGED <<db, ttl, now, untrimmed, issued, failures>>

\* setex(key, ttl, json.dumps(context_entry)).  The backend rejects an expiry
\* that is not positive ("invalid expire time"), which the except branch
\* turns into False.
StoreContextSetex(p) ==
    LET f == frame[p]
        key == ContextKey(f.context_id)
    IN  /\ pc[p] = "sx_setex"
        /\ IF ContextExpiry(f) <= 0
           THEN /\ Raise(p, FALSE)
                /\ UNCHANGED <<db, ttl, log>>
           ELSE /\ Store(SetStr(db, key, ContextEntry(f)), SetTtl(ttl, key, now, ContextExpiry(f)))
                /\ Return(p, TRUE)
                /\ Logged(key, [data |-> f.data, ttl |-> f.ttl, at |-> now])
        /\ UNCHANGED <<now, untrimmed, issued, failures>>

GetContextCall(p, context_id) ==
    /\ Call(p, "gx_get", [op |-> "get_context", context_id |-> context_id])
    /\ UNCHANGED <<db, ttl, now, untrimmed, issued, failures>>

Context(d, context_id) == Get(d, ContextKey(context_id))

GetContextGet(p) ==
    /\ pc[p] = "gx_get"
    /\ ~WrongType(db, ContextKey(frame[p].context_id), "string")
    /\ Return(p, Context(db, frame[p].context_id))
    /\ UNCHANGED <<db, ttl, now, log, untrimmed, issued, failures>>

----------------------------------------------------------------------------
(* RedisMemoryStore.health_check                                           *)

HealthKey == "meshnet:health:test"
HealthTTL == 60

\* A probe that reports the read as lost whatever it returned.
HealthResultProbeLost(retrieved, t) ==
    [status |-> "unhealthy", redis_connected |-> TRUE, read_write_ok |-> FALSE,
     timestamp |-> IsoFormat(t)]

\* The dict returned after the three commands: `if retrieved:`.
HealthResult(retrieved, t) ==
    IF retrieved # None
    THEN [status |-> "healthy", redis_connected |-> TRUE, read_write_ok |-> TRUE,
          timestamp |-> IsoFormat(t)]
    ELSE [status |-> "unhealthy", redis_connected |-> TRUE, read_write_ok |-> FALSE,
          timestamp |-> IsoFormat(t)]

\* The dict returned by the except branch.
HealthError(t) ==
    [status |-> "unhealthy", redis_connected |-> FALSE, error |-> "error",
     timestamp |-> IsoFormat(t)]

\* f"langflow_workflow_{workflow_id}"
WorkflowContext(workflow_id) == "langflow_workflow_" \o workflow_id

WorkflowTTL == 3600

\* state_entry of store_workflow_state, its timestamp read at tick t.
WorkflowStateEntry(workflow_id, state_data, t) ==
    <<Item(PyStr("workflow_id"), PyStr(workflow_id)),
      Item(PyStr("state"), state_data),
      Item(PyStr("timestamp"), PyStr(IsoFormat(t))),
      Item(PyStr("component"), PyStr("langflow"))>>

\* test_workflow_id and test_state of LangflowRedisComponent.health_check.
HealthWorkflow == "health_check_test"
TestState(t) ==
    <<Item(PyStr("status"), PyStr("testing")), Item(PyStr("timestamp"), PyStr(IsoFormat(t)))>>

\* health_check returns r: to its caller, or into the health_check of the
\* Langflow component, which goes on to its workflow state probe.
HealthCheckReturn(p, f, r) ==
    IF f.op = "langflow_health_check"
    THEN /\ pc' = [pc EXCEPT ![p] = "lh_setex"]
         /\ frame' = [frame EXCEPT ![p] = [f EXCEPT !.redis_health = Some(r)]]
         /\ UNCHANGED <<last, ncalls>>
    ELSE ReturnFrom(p, f, r)

HealthCheckCall(p) ==
    /\ Call(p, "hc_setex", [op |-> "health_check",
                            test_value |-> [timestamp |-> IsoFormat(now)],
                            retrieved |-> None])
    /\ UNCHANGED <<db, ttl, now, untrimmed, issued, failures>>

\* setex(test_key, 60, json.dumps(test_value))
HealthCheckSetex(p) ==
    /\ pc[p] = "hc_setex"
    /\ Store(SetStr(db, HealthKey, frame[p].test_value), SetTtl(ttl, HealthKey, now, HealthTTL))
    /\ Goto(p, "hc_get", frame[p])
    /\ UNCHANGED <<now, untrimmed, issued, failures>>

\* retrieved = get(test_key)
HealthCheckGet(p) ==
    /\ pc[p] = "hc_get"
    /\ ~WrongType(db, HealthKey, "string")
    /\ Goto(p, "hc_delete", [frame[p] EXCEPT !.retrieved = Get(db, HealthKey)])
    /\ UNCHANGED <<db, ttl, now, untrimmed, issued, failures>>

\* delete(test_key), then the result.
HealthCheckDelete(p) ==
    /\ pc[p] = "hc_delete"
    /\ Store(Del(db, HealthKey), ttl)
    /\ HealthCheckReturn(p, frame[p], HealthResult(frame[p].retrieved, now))
    /\ UNCHANGED <<now, log, untrimmed, issued, failures>>

----------------------------------------------------------------------------
(* LangflowRedisComponent: workflow states and its health_check            *)

\* store_workflow_state(workflow_id, state_data): store_context of the state
\* entry under the workflow's context id, with a TTL of one hour.
StoreWorkflowStateCall(p, workflow_id, state_data) ==
    /\ Call(p, "sx_setex", [op |-> "store_workflow_state",
                            context_id |-> WorkflowContext(workflow_id),
                            data |-> WorkflowStateEntry(workflow_id, state_data, now),
                            ttl |-> WorkflowTTL, timestamp |-> IsoFormat(now)])
    /\ UNCHANGED <<db, ttl, now, untrimmed, issued, failures>>

\* result_entry of store_execution_result, its timestamp read at tick t.
ResultEntry(execution_id, result_data, t) ==
    <<Item(PyStr("execution_id"), PyStr(execution_id)),
      Item(PyStr("result"), result_data),
      Item(PyStr("timestamp"), PyStr(IsoFormat(t))),
      Item(PyStr("component"), PyStr("langflow"))>>

ExecutionCategory == "langflow_executions"

\* store_execution_result(execution_id, result_data): store_knowledge of the
\* result entry in the category of the executions.
StoreExecutionResultCall(p, execution_id, result_data) ==
    /\ Call(p, "sk_set", [op |-> "store_execution_result", knowledge_id |-> execution_id,
                          category |-> ExecutionCategory,
                          data |-> ResultEntry(execution_id, result_data, now),
                          timestamp |-> IsoFormat(now)])
    /\ UNCHANGED <<db, ttl, now, untrimmed, issued, failures>>

\* f"workflow_id:{workflow_id}"
AnalyticsQuery(workflow_id) == "workflow_id:" \o workflow_id

AnalyticsLimit == 100

\* get_workflow_analytics(workflow_id) begins with search_memory(query,
\* agent_id = component_id, limit = 100).
GetWorkflowAnalyticsCall(p, workflow_id) ==
    /\ Call(p, "sm_conv", [op |-> "get_workflow_analytics", workflow_id |-> workflow_id,
                           query |-> AnalyticsQuery(workflow_id), agent |-> Some(ComponentId),
                           limit |-> AnalyticsLimit, results |-> <<>>,
                           decision_ids |-> <<>>, decisions |-> <<>>, failed |-> FALSE])
    /\ UNCHANGED <<db, ttl, now, untrimmed, issued, failures>>

\* health_check begins with memory_store.health_check(); `before` keeps the
\* keyspace the call found.
LangflowHealthCheckCall(p) ==
    /\ Call(p, "hc_setex", [op |-> "langflow_health_check",
                            test_value |-> [timestamp |-> IsoFormat(now)],
                            retrieved |-> None, redis_health |-> None,
                            retrieve_success |-> FALSE, langflow_health |-> None,
                            before |-> db])
    /\ UNCHANGED <<db, ttl, now, untrimmed, issued, failures>>

\* store_workflow_state("health_check_test", test_state): one setex.
LangflowHealthCheckStore(p) ==
    LET key == ContextKey(WorkflowContext(HealthWorkflow))
        c == [context_id |-> WorkflowContext(HealthWorkflow),
              data |-> WorkflowStateEntry(HealthWorkflow, TestState(now), now),
              ttl |-> WorkflowTTL, timestamp |-> IsoFormat(now)]
    IN  /\ pc[p] = "lh_setex"
        /\ Store(SetStr(db, key, ContextEntry(c)), SetTtl(ttl, key, now, ContextExpiry(c)))
        /\ pc' = [pc EXCEPT ![p] = "lh_get"]
        /\ UNCHANGED <<frame, last, ncalls>>
        /\ Logged(key, [data |-> c.data, ttl |-> c.ttl, at |-> now])
        /\ UNCHANGED <<now, untrimmed, issued, failures>>

\* get_workflow_state("health_check_test") is not None, then langflow_health.
LangflowHealthCheckGet(p) ==
    LET f == frame[p]
        found == Context(db, WorkflowContext(HealthWorkflow)) # None
    IN  /\ pc[p] = "lh_get"
        /\ ~WrongType(db, ContextKey(WorkflowContext(HealthWorkflow)), "string")
        /\ Goto(p, "lh_delete",
                [f EXCEPT !.retrieve_success = found,
                          !.langflow_health =
                              Some([component |-> "langflow_redis",
                                    redis_connection |-> f.redis_health[1].status = "healthy",
                                    workflow_state_ops |-> found,
                                    timestamp |-> IsoFormat(now)])])
        /\ UNCHANGED <<db, ttl, now, untrimmed, issued, failures>>

\* delete("meshnet:ctx:langflow_workflow_health_check_test"), then the result.
LangflowHealthCheckCleanup(p) ==
    LET f == frame[p]
    IN  /\ pc[p] = "lh_delete"
        /\ Store(Del(db, ContextKey(WorkflowContext(HealthWorkflow))), ttl)
        /\ Return(p, [redis_health |-> f.redis_health[1],
                      langflow_health |-> f.langflow_health[1],
                      overall_status |-> IF f.langflow_health[1].workflow_state_ops
                                         THEN "healthy" ELSE "unhealthy"])
        /\ UNCHANGED <<now, log, untrimmed, issued, failures>>

----------------------------------------------------------------------------
(* RedisMemoryStore.store_knowledge / get_knowledge                        *)

KnowledgeKey(category, knowledge_id) == "meshnet:kb:" \o category \o ":" \o knowledge_id
KnowledgeIndexKey(category) == "meshnet:kb:" \o "index:" \o category

\* SADD key member / SMEMBERS key on set keys.
SetOf(d, key) == IF Exists(d, key) THEN d[key].v ELSE {}
SAdd(d, key, member) == Put(d, key, [t |-> "set", v |-> SetOf(d, key) \cup {member}])

\* json.dumps(knowledge_entry)
KnowledgeEntry(f) ==
    [timestamp |-> f.timestamp, knowledge_id |-> f.knowledge_id,
     category |-> f.category, data |-> JsonDict(f.data)]

StoreKnowledgeCall(p, knowledge_id, data, category) ==
    /\ Call(p, "sk_set", [op |-> "store_knowledge", knowledge_id |-> knowledge_id,
                          category |-> category, data |-> data,
                          timestamp |-> IsoFormat(now)])
    /\ UNCHANGED <<db, ttl, now, untrimmed, issued, failures>>

\* set(key, json.dumps(knowledge_entry)): SET replaces a value of any type.
StoreKnowledgeSet(p) ==
    LET f == frame[p]
        key == KnowledgeKey(f.category, f.knowledge_id)
    IN  /\ pc[p] = "sk_set"
        /\ Store(SetStr(db, key, KnowledgeEntry(f)), ClearTtl(ttl, key))
        /\ Goto(p, "sk_sadd", f)
        /\ UNCHANGED <<now, untrimmed, issued, failures>>

\* sadd(category_index_key, knowledge_id): WRONGTYPE when the key holds no
\* set, which the except branch turns into False.
StoreKnowledgeSadd(p) ==
    LET f == frame[p]
        key == KnowledgeIndexKey(f.category)
    IN  /\ pc[p] = "sk_sadd"
        /\ IF WrongType(db, key, "set")
           THEN /\ Raise(p, FALSE)
                /\ UNCHANGED <<db, ttl, log>>
           ELSE /\ Store(SAdd(db, key, f.knowledge_id), ttl)
                /\ Return(p, TRUE)
                /\ Logged(key, [knowledge_id |-> f.knowledge_id, data |-> f.data])
        /\ UNCHANGED <<now, untrimmed, issued, failures>>

GetKnowledgeCall(p, knowledge_id, category) ==
    /\ Call(p, "gk_get", [op |-> "get_knowledge", knowledge_id |-> knowledge_id,
                          category |-> category])
    /\ UNCHANGED <<db, ttl, now, untrimmed, issued, failures>>

\* get(key): WRONGTYPE when the key holds no string, which the except branch
\* turns into None.
GetKnowledgeGet(p) ==
    LET f == frame[p]
        key == KnowledgeKey(f.category, f.knowledge_id)
    IN  /\ pc[p] = "gk_get"
        /\ IF WrongType(db, key, "string")
           THEN Raise(p, None)
           ELSE Return(p, Get(db, key))
        /\ UNCHANGED <<db, ttl, now, log, untrimmed, issued, failures>>

----------------------------------------------------------------------------
(* RedisMemoryStore.get_knowledge_by_category                              *)

\* srandmember(key, count) for count >= 0: min(count, cardinality) distinct
\* members of the set, which ones and in which order being the backend's
\* choice.
SRandMember(d, key, count) ==
    LET S == SetOf(d, key)
        n == IF count < Cardinality(S) THEN count ELSE Cardinality(S)
    IN  {ids \in [1..n -> S] : \A i, j \in 1..n : ids[i] = ids[j] => i = j}

\* knowledge_data = self.get_knowledge(knowledge_id, category); appended when
\* truthy.  A WRONGTYPE inside get_knowledge comes back as None.
FetchKnowledge(d, knowledge_items, category, knowledge_id) ==
    LET key == KnowledgeKey(category, knowledge_id)
    IN  IF WrongType(d, key, "string") \/ Get(d, key) = None
        THEN knowledge_items
        ELSE Append(knowledge_items, Get(d, key)[1])

GetKnowledgeByCategoryCall(p, category, limit) ==
    /\ Call(p, "kc_srandmember", [op |-> "get_knowledge_by_category",
                                  category |-> category, limit |-> limit,
                                  knowledge_ids |-> <<>>, knowledge_items |-> <<>>])
    /\ UNCHANGED <<db, ttl, now, untrimmed, issued, failures>>

GetKnowledgeByCategorySrandmember(p) ==
    LET f == frame[p]
        key == KnowledgeIndexKey(f.category)
    IN  /\ pc[p] = "kc_srandmember"
        /\ IF WrongType(db, key, "set")
           THEN Raise(p, <<>>)
           ELSE \E ids \in SRandMember(db, key, f.limit) :
                    IF ids = <<>>
                    THEN Return(p, <<>>)
                    ELSE Goto(p, "kc_get", [f EXCEPT !.knowledge_ids = ids])
        /\ UNCHANGED <<db, ttl, now, log, untrimmed, issued, failures>>

\* The loop goes on with the items gathered so far.
GetKnowledgeByCategoryNext(p, f, knowledge_items) ==
    IF Len(f.knowledge_ids) = 1
    THEN ReturnFrom(p, f, knowledge_items)
    ELSE /\ pc' = [pc EXCEPT ![p] = "kc_get"]
         /\ frame' = [frame EXCEPT ![p] = [f EXCEPT !.knowledge_ids = Tail(@),
                                                    !.knowledge_items = knowledge_items]]
         /\ UNCHANGED <<last, ncalls>>

GetKnowledgeByCategoryGet(p) ==
    LET f == frame[p]
    IN  /\ pc[p] = "kc_get"
        /\ GetKnowledgeByCategoryNext(p, f,
                FetchKnowledge(db, f.knowledge_items, f.category, Head(f.knowledge_ids)))
        /\ UNCHANGED <<db, ttl, now, log, untrimmed, issued, failures>>

----------------------------------------------------------------------------
(* RedisMemoryStore.get_memory_stats                                       *)

\* self.prefixes, in the order of the dict.
Prefixes ==
    <<[name |-> "conversation", prefix |-> "meshnet:conv:"],
      [name |-> "context", prefix |-> "meshnet:ctx:"],
      [name |-> "decision", prefix |-> "meshnet:decision:"],
      [name |-> "knowledge", prefix |-> "meshnet:kb:"],
      [name |-> "agent_state", prefix |-> "meshnet:state:"],
      [name |-> "memory_index", prefix |-> "meshnet:index:"],
      [name |-> "embeddings", prefix |-> "meshnet:embed:"]>>

\* keys(f"{prefix}*")
Keys(d, prefix) ==
    {k \in DOMAIN d : Len(k) >= Len(prefix) /\ SubSeq(k, 1, Len(prefix)) = prefix}

GetMemoryStatsCall(p) ==
    /\ Call(p, "ms_info", [op |-> "get_memory_stats", total_keys |-> 0,
                           key_counts |-> <<>>, prefixes |-> Prefixes])
    /\ UNCHANGED <<db, ttl, now, untrimmed, issued, failures>>

\* info('memory'): the backend's memory section, not looked into here.
GetMemoryStatsInfo(p) ==
    /\ pc[p] = "ms_info"
    /\ Goto(p, "ms_dbsize", frame[p])
    /\ UNCHANGED <<db, ttl, now, untrimmed, issued, failures>>

\* dbsize()
GetMemoryStatsDbsize(p) ==
    /\ pc[p] = "ms_dbsize"
    /\ Goto(p, "ms_keys", [frame[p] EXCEPT !.total_keys = Cardinality(DOMAIN db)])
    /\ UNCHANGED <<db, ttl, now, untrimmed, issued, failures>>

\* One turn of the loop over the prefixes; after the last, the stats.
GetMemoryStatsKeys(p) ==
    LET f == frame[p]
        h == Head(f.prefixes)
        counts == Put(f.key_counts, h.name, Cardinality(Keys(db, h.prefix)))
    IN  /\ pc[p] = "ms_keys"
        /\ IF Len(f.prefixes) = 1
           THEN /\ Return(p, [redis_info |-> "memory", total_keys |-> f.total_keys,
                              key_counts |-> counts])
                /\ UNCHANGED log
           ELSE Goto(p, "ms_keys", [f EXCEPT !.prefixes = Tail(@), !.key_counts = counts])
        /\ UNCHANGED <<db, ttl, now, untrimmed, issued, failures>>

----------------------------------------------------------------------------
(* LangGraphRedisCheckpointer.save_checkpoint                              *)

\* _generate_checkpoint_id(thread_id) at tick t with os.urandom salt.
GenerateCheckpointId(thread_id, t, salt) ==
    Md5Hex(thread_id \o "_" \o IsoFormat(t) \o "_" \o salt)

\* metadata or {}
OrEmpty(metadata) == IF metadata = None THEN <<>> ELSE metadata[1]

\* The checkpoint data after json.dumps and json.loads: the manager saves its
\* complete_state, other callers a dict of scalars.
CheckpointData(f) ==
    IF f.op = "save_agent_state" THEN JsonComplete(f.data) ELSE JsonDict(f.data)

\* An entry that leaves the metadata out.
CheckpointEntryBare(f, t) ==
    [thread_id |-> f.thread_id, checkpoint_id |-> f.checkpoint_id,
     data |-> CheckpointData(f), metadata |-> <<>>,
     timestamp |-> IsoFormat(t), component |-> "langgraph"]

\* json.dumps(checkpoint_entry), its timestamp read at tick t.
CheckpointEntry(f, t) ==
    [thread_id |-> f.thread_id, checkpoint_id |-> f.checkpoint_id,
     data |-> CheckpointData(f), metadata |-> JsonDict(OrEmpty(f.metadata)),
     timestamp |-> IsoFormat(t), component |-> "langgraph"]

\* zremrangebyrank(thread_key, 0, -51): all but the MaxCheckpoints highest ranks.
TrimCheckpoints(d, key) ==
    ZRemRangeByRank(d, key, 0, 0 - (MaxCheckpoints + 1), "id")

\* A 64-bit salt does not repeat: the id is one not generated before.
SaveCheckpointCall(p, thread_id, data, metadata) ==
    \E salt \in Salts :
        LET id == GenerateCheckpointId(thread_id, now, salt)
        IN  /\ id \notin issued
            /\ issued' = issued \cup {id}
            /\ Call(p, "sv_setex", [op |-> "save_checkpoint", thread_id |-> thread_id,
                                    data |-> data, metadata |-> metadata,
                                    checkpoint_id |-> id])
            /\ UNCHANGED <<db, ttl, now, untrimmed, failures>>

\* A step that goes on to the index without the content write.
SaveCheckpointSetexSkipped(p) ==
    /\ pc[p] = "sv_setex"
    /\ Goto(p, "sv_zadd", frame[p])
    /\ UNCHANGED <<db, ttl, now, untrimmed, issued, failures>>
\* setex returns True, so the `if success:` branch is the one taken.
\* The log keeps the arguments of the call and the time of the write under
\* the content key.
SaveCheckpointSetex(p) ==
    LET f == frame[p]
        key == CheckpointKey(f.checkpoint_id)
    IN  /\ pc[p] = "sv_setex"
        /\ Store(SetStr(db, key, CheckpointEntry(f, now)), SetTtl(ttl, key, now, CheckpointTTL))
        /\ pc' = [pc EXCEPT ![p] = "sv_zadd"]
        /\ Logged(key, [thread_id |-> f.thread_id, checkpoint_id |-> f.checkpoint_id,
                         data |-> f.data, metadata |-> f.metadata, at |-> now])
        /\ UNCHANGED <<frame, last, ncalls, now, untrimmed, issued, failures>>

SaveCheckpointZadd(p) ==
    LET f == frame[p]
        key == ThreadKey(f.thread_id)
        d == ZAdd(db, key, f.checkpoint_id, Timestamp(now))
    IN  /\ pc[p] = "sv_zadd"
        /\ ~WrongType(db, key, "zset")
        /\ Store(d, ttl)
        /\ Inserted(d, key)
        /\ Goto(p, "sv_trim", f)
        /\ UNCHANGED <<now, issued, failures>>

\* `if metadata:` is false for None and for the empty dict.
SaveCheckpointTrim(p) ==
    LET f == frame[p]
        key == ThreadKey(f.thread_id)
    IN  /\ pc[p] = "sv_trim"
        /\ ~WrongType(db, key, "zset")
        /\ Store(TrimCheckpoints(db, key), ttl)
        /\ SetUntrimmed(key, 0)
        /\ IF OrEmpty(f.metadata) # <<>>
           THEN Goto(p, "sv_meta", f)
           ELSE SaveCheckpointReturn(p, f, Some(f.checkpoint_id)) /\ Logged(key, f.checkpoint_id)
        /\ UNCHANGED <<now, issued, failures>>

SaveCheckpointMetadata(p) ==
    LET f == frame[p]
        key == MetadataKey(f.checkpoint_id)
    IN  /\ pc[p] = "sv_meta"
        /\ Store(SetStr(db, key, JsonDict(f.metadata[1])), SetTtl(ttl, key, now, CheckpointTTL))
        /\ SaveCheckpointReturn(p, f, Some(f.checkpoint_id))
        /\ Logged(ThreadKey(f.thread_id), f.checkpoint_id)
        /\ UNCHANGED <<now, untrimmed, issued, failures>>

----------------------------------------------------------------------------
(* checkpoint_decorator                                                    *)

PyTrue == [ty |-> "bool", s |-> "true"]

\* s[:n]
Truncated(s, n) == IF Len(s) > n THEN SubSeq(s, 1, n) ELSE s

ArgsLength == 200
ResultLength == 500

\* checkpoint_data and metadata of the wrapper after func returned value,
\* called with no arguments; str() of a str or an int is its text.
AutoCheckpoint(function, value, t) ==
    <<Item(PyStr("function"), PyStr(function)),
      Item(PyStr("args"), PyStr(Truncated("()", ArgsLength))),
      Item(PyStr("kwargs"), PyStr(Truncated("{}", ArgsLength))),
      Item(PyStr("result"), PyStr(Truncated(value.s, ResultLength))),
      Item(PyStr("timestamp"), PyStr(IsoFormat(t)))>>
AutoMetadata(function) ==
    <<Item(PyStr("function"), PyStr(function)), Item(PyStr("auto_checkpoint"), PyTrue)>>

\* error_data and metadata of the wrapper after func raised an exception
\* whose str() is value.
ErrorCheckpoint(function, value, t) ==
    <<Item(PyStr("function"), PyStr(function)),
      Item(PyStr("error"), PyStr(value.s)),
      Item(PyStr("timestamp"), PyStr(IsoFormat(t)))>>
ErrorMetadata(function) ==
    <<Item(PyStr("function"), PyStr(function)), Item(PyStr("error"), PyTrue)>>

\* wrapper(): func runs and returns or raises (outcome), then the one
\* save_checkpoint of the branch taken begins.  attempts keeps the thread and
\* the metadata of every save_checkpoint the wrapper calls.
WrapperCall(p, thread_id, function, outcome) ==
    \E salt \in Salts :
        LET id == GenerateCheckpointId(thread_id, now, salt)
            returned == outcome.kind = "return"
            metadata == IF returned THEN AutoMetadata(function) ELSE ErrorMetadata(function)
        IN  /\ id \notin issued
            /\ issued' = issued \cup {id}
            /\ Call(p, "sv_setex",
                    [op |-> "checkpoint_wrapper", thread_id |-> thread_id,
                     function |-> function, outcome |-> outcome,
                     data |-> IF returned THEN AutoCheckpoint(function, outcome.value, now)
                              ELSE ErrorCheckpoint(function, outcome.value, now),
                     metadata |-> Some(metadata), checkpoint_id |-> id,
                     attempts |-> <<[thread_id |-> thread_id, metadata |-> metadata]>>,
                     failed |-> FALSE])
            /\ UNCHANGED <<db, ttl, now, untrimmed, failures>>

----------------------------------------------------------------------------
(* LangGraphRedisCheckpointer.load_checkpoint / get_latest_checkpoint      *)

\* GET of the checkpoint key and json.loads: the record, or None.
LoadCheckpoint(d, checkpoint_id) == Get(d, CheckpointKey(checkpoint_id))

LoadCheckpointCall(p, checkpoint_id) ==
    /\ Call(p, "lc_get", [op |-> "load_checkpoint", checkpoint_id |-> checkpoint_id])
    /\ UNCHANGED <<db, ttl, now, untrimmed, issued, failures>>

LoadCheckpointGet(p) ==
    /\ pc[p] = "lc_get"
    /\ ~WrongType(db, CheckpointKey(frame[p].checkpoint_id), "string")
    /\ Return(p, LoadCheckpoint(db, frame[p].checkpoint_id))
    /\ UNCHANGED <<db, ttl, now, log, untrimmed, issued, failures>>

GetLatestCheckpointCall(p, thread_id) ==
    /\ Call(p, "gl_zrevrange", [op |-> "get_latest_checkpoint", thread_id |-> thread_id,
                                latest_checkpoint_id |-> ""])
    /\ UNCHANGED <<db, ttl, now, untrimmed, issued, failures>>

\* latest_checkpoints = zrevrange(thread_key, 0, 0)
GetLatestCheckpointZrevrange(p) ==
    LET f == frame[p]
        latest_checkpoints == ZRevRange(db, ThreadKey(f.thread_id), 0, 0, "id")
    IN  /\ pc[p] = "gl_zrevrange"
        /\ ~WrongType(db, ThreadKey(f.thread_id), "zset")
        /\ IF latest_checkpoints # <<>>
           THEN Goto(p, "gl_get", [f EXCEPT !.latest_checkpoint_id = latest_checkpoints[1]])
           ELSE Return(p, None) /\ UNCHANGED log
        /\ UNCHANGED <<db, ttl, now, untrimmed, issued, failures>>

\* return self.load_checkpoint(latest_checkpoint_id)
GetLatestCheckpointGet(p) ==
    /\ pc[p] = "gl_get"
    /\ ~WrongType(db, CheckpointKey(frame[p].latest_checkpoint_id), "string")
    /\ Return(p, LoadCheckpoint(db, frame[p].latest_checkpoint_id))
    /\ UNCHANGED <<db, ttl, now, log, untrimmed, issued, failures>>

----------------------------------------------------------------------------
(* LangGraphRedisCheckpointer.list_checkpoints / restore_from_checkpoint   *)

\* One turn of the loop over checkpoint_ids: load_checkpoint, append when present.
FetchCheckpoint(d, checkpoints, checkpoint_id) ==
    LET got == LoadCheckpoint(d, checkpoint_id)
    IN  IF got # None THEN Append(checkpoints, got[1]) ELSE checkpoints

RECURSIVE FetchCheckpoints(_, _, _)
FetchCheckpoints(d, checkpoints, checkpoint_ids) ==
    IF checkpoint_ids = <<>> THEN checkpoints
    ELSE FetchCheckpoints(d, FetchCheckpoint(d, checkpoints, Head(checkpoint_ids)),
                          Tail(checkpoint_ids))

\* zrevrange(thread_key, 0, limit - 1)
ListedIds(d, thread_id, limit) == ZRevRange(d, ThreadKey(thread_id), 0, limit - 1, "id")

\* What list_checkpoints(thread_id, limit) returns when no other command comes
\* between its reads.
ListCheckpoints(d, thread_id, limit) ==
    FetchCheckpoints(d, <<>>, ListedIds(d, thread_id, limit))

\* What get_latest_checkpoint(thread_id) returns when no other command comes
\* between its reads.
LatestCheckpoint(d, thread_id) ==
    LET latest_checkpoints == ZRevRange(d, ThreadKey(thread_id), 0, 0, "id")
    IN  IF latest_checkpoints # <<>> THEN LoadCheckpoint(d, latest_checkpoints[1]) ELSE None

ListCheckpointsCall(p, thread_id, limit) ==
    /\ Call(p, "ls_zrevrange", [op |-> "list_checkpoints", thread_id |-> thread_id,
                                limit |-> limit, checkpoint_ids |-> <<>>,
                                checkpoints |-> <<>>])
    /\ UNCHANGED <<db, ttl, now, untrimmed, issued, failures>>

ListCheckpointsZrevrange(p) ==
    LET f == frame[p]
        ids == ListedIds(db, f.thread_id, f.limit)
    IN  /\ pc[p] = "ls_zrevrange"
        /\ ~WrongType(db, ThreadKey(f.thread_id), "zset")
        /\ IF ids = <<>>
           THEN Return(p, <<>>) /\ UNCHANGED log
           ELSE Goto(p, "ls_get", [f EXCEPT !.checkpoint_ids = ids])
        /\ UNCHANGED <<db, ttl, now, untrimmed, issued, failures>>

\* The loop goes on with the checkpoints gathered so far.
ListCheckpointsNext(p, f, checkpoints) ==
    IF Len(f.checkpoint_ids) = 1
    THEN ReturnFrom(p, f, checkpoints) /\ UNCHANGED log
    ELSE Goto(p, "ls_get", [f EXCEPT !.checkpoint_ids = Tail(@), !.checkpoints = checkpoints])

ListCheckpointsGet(p) ==
    LET f == frame[p]
    IN  /\ pc[p] = "ls_get"
        /\ ListCheckpointsNext(p, f, FetchCheckpoint(db, f.checkpoints, Head(f.checkpoint_ids)))
        /\ UNCHANGED <<db, ttl, now, untrimmed, issued, failures>>

\* A reshaping that hands out the metadata as the state and the data as the
\* metadata.
RestoredSwapped(checkpoint_data, checkpoint_id) ==
    [state |-> checkpoint_data.metadata, metadata |-> checkpoint_data.data,
     thread_id |-> checkpoint_data.thread_id, timestamp |-> checkpoint_data.timestamp,
     checkpoint_id |-> checkpoint_id]

\* The dict restore_from_checkpoint builds from the loaded record.
Restored(checkpoint_data, checkpoint_id) ==
    [state |-> checkpoint_data.data, metadata |-> checkpoint_data.metadata,
     thread_id |-> checkpoint_data.thread_id, timestamp |-> checkpoint_data.timestamp,
     checkpoint_id |-> checkpoint_id]

RestoreFromCheckpointCall(p, checkpoint_id) ==
    /\ Call(p, "rs_get", [op |-> "restore_from_checkpoint", checkpoint_id |-> checkpoint_id])
    /\ UNCHANGED <<db, ttl, now, untrimmed, issued, failures>>

\* checkpoint_data = self.load_checkpoint(checkpoint_id); `if checkpoint_data:`
RestoreFromCheckpointGet(p) ==
    LET f == frame[p]
        checkpoint_data == LoadCheckpoint(db, f.checkpoint_id)
    IN  /\ pc[p] = "rs_get"
        /\ ~WrongType(db, CheckpointKey(f.checkpoint_id), "string")
        /\ RestoreFromCheckpointReturn(p, f,
                IF checkpoint_data # None
                THEN Some(Restored(checkpoint_data[1], f.checkpoint_id))
                ELSE None)
        /\ UNCHANGED <<db, ttl, now, log, untrimmed, issued, failures>>

----------------------------------------------------------------------------
(* LangGraphRedisCheckpointer.get_thread_statistics                        *)

\* checkpoint.get('timestamp') of the checkpoint loaded for id, None when
\* load_checkpoint returns None.
CheckpointTimestamp(d, checkpoint_id) ==
    IF LoadCheckpoint(d, checkpoint_id) = None THEN None
    ELSE Some(LoadCheckpoint(d, checkpoint_id)[1].timestamp)

\* The stats dict, its own timestamp read at the return.
ThreadStatistics(f) ==
    [thread_id |-> f.thread_id, checkpoint_count |-> f.checkpoint_count,
     first_checkpoint |-> f.first_checkpoint, last_checkpoint |-> f.last_checkpoint,
     timestamp |-> IsoFormat(now)]

GetThreadStatisticsCall(p, thread_id) ==
    /\ Call(p, "ts_zcard", [op |-> "get_thread_statistics", thread_id |-> thread_id,
                            checkpoint_count |-> 0, checkpoint_id |-> "",
                            first_checkpoint |-> None, last_checkpoint |-> None])
    /\ UNCHANGED <<db, ttl, now, untrimmed, issued, failures>>

\* checkpoint_count = zcard(thread_key); `if checkpoint_count > 0:`
GetThreadStatisticsZcard(p) ==
    LET f == [frame[p] EXCEPT !.checkpoint_count = ZCard(db, ThreadKey(frame[p].thread_id))]
    IN  /\ pc[p] = "ts_zcard"
        /\ ~WrongType(db, ThreadKey(f.thread_id), "zset")
        /\ IF f.checkpoint_count > 0
           THEN Goto(p, "ts_zrange", f)
           ELSE ReturnFrom(p, f, ThreadStatistics(f))
        /\ UNCHANGED <<db, ttl, now, log, untrimmed, issued, failures>>

\* oldest_ids = zrange(thread_key, 0, 0); `if oldest_ids:`
GetThreadStatisticsZrange(p) ==
    LET f == frame[p]
        oldest_ids == ZRange(db, ThreadKey(f.thread_id), 0, 0, "id")
    IN  /\ pc[p] = "ts_zrange"
        /\ ~WrongType(db, ThreadKey(f.thread_id), "zset")
        /\ IF oldest_ids # <<>>
           THEN Goto(p, "ts_oldest", [f EXCEPT !.checkpoint_id = oldest_ids[1]])
           ELSE Goto(p, "ts_zrevrange", f)
        /\ UNCHANGED <<db, ttl, now, untrimmed, issued, failures>>

GetThreadStatisticsOldest(p) ==
    LET f == frame[p]
    IN  /\ pc[p] = "ts_oldest"
        /\ ~WrongType(db, CheckpointKey(f.checkpoint_id), "string")
        /\ Goto(p, "ts_zrevrange",
                [f EXCEPT !.first_checkpoint = CheckpointTimestamp(db, f.checkpoint_id)])
        /\ UNCHANGED <<db, ttl, now, untrimmed, issued, failures>>

\* newest_ids = zrevrange(thread_key, 0, 0); `if newest_ids:`
GetThreadStatisticsZrevrange(p) ==
    LET f == frame[p]
        newest_ids == ZRevRange(db, ThreadKey(f.thread_id), 0, 0, "id")
    IN  /\ pc[p] = "ts_zrevrange"
        /\ ~WrongType(db, ThreadKey(f.thread_id), "zset")
        /\ IF newest_ids # <<>>
           THEN Goto(p, "ts_newest", [f EXCEPT !.checkpoint_id = newest_ids[1]])
           ELSE ReturnFrom(p, f, ThreadStatistics(f)) /\ UNCHANGED log
        /\ UNCHANGED <<db, ttl, now, untrimmed, issued, failures>>

GetThreadStatisticsNewest(p) ==
    LET f == [frame[p] EXCEPT
                !.last_checkpoint = CheckpointTimestamp(db, frame[p].checkpoint_id)]
    IN  /\ pc[p] = "ts_newest"
        /\ ~WrongType(db, CheckpointKey(f.checkpoint_id), "string")
        /\ ReturnFrom(p, f, ThreadStatistics(f))
        /\ UNCHANGED <<db, ttl, now, log, untrimmed, issued, failures>>

----------------------------------------------------------------------------
(* LangGraphMemoryManager.save_agent_state / restore_agent_state           *)
(*                                                                         *)
(* save_agent_state reads the agent's conversation history, saves it with  *)
(* the state as one checkpoint (the steps of save_checkpoint), and stores  *)
(* a state_checkpoint conversation (the steps of store_conversation).      *)
(* restore_agent_state reads the checkpoint (the step of                   *)
(* restore_from_checkpoint) and stores every bundled conversation again.   *)

SaveAgentStateCall(p, thread_id, state, metadata) ==
    /\ Call(p, "sa_history", [op |-> "save_agent_state", agent_id |-> ManagerAgent,
                              thread_id |-> thread_id, state |-> state,
                              metadata |-> metadata, checkpoint_id |-> "",
                              data |-> <<>>, restored |-> None, replay |-> <<>>,
                              stored |-> 0, failed |-> FALSE])
    /\ UNCHANGED <<db, ttl, now, untrimmed, issued, failures>>

SaveAgentStateHistory(p) ==
    LET f == frame[p]
    IN  /\ pc[p] = "sa_history"
        /\ ~WrongType(db, ConversationKey(f.agent_id), "zset")
        /\ Goto(p, "sa_save",
                [f EXCEPT !.replay = ConversationHistory(db, f.agent_id, BundleLimit)])
        /\ UNCHANGED <<db, ttl, now, untrimmed, issued, failures>>

\* complete_state is built around the history and save_checkpoint generates
\* its id.
SaveAgentStateSave(p) ==
    LET f == frame[p]
    IN  \E salt \in Salts :
            LET id == GenerateCheckpointId(f.thread_id, now, salt)
            IN  /\ pc[p] = "sa_save"
                /\ id \notin issued
                /\ issued' = issued \cup {id}
                /\ Goto(p, "sv_setex",
                        [f EXCEPT !.checkpoint_id = id,
                                  !.data = CompleteState(f.state, f.replay,
                                                         f.thread_id, now)])
                /\ UNCHANGED <<db, ttl, now, untrimmed, failures>>

RestoreAgentStateCall(p, checkpoint_id) ==
    /\ Call(p, "rs_get", [op |-> "restore_agent_state", agent_id |-> ManagerAgent,
                          checkpoint_id |-> checkpoint_id, thread_id |-> "",
                          state |-> <<>>, metadata |-> None, data |-> <<>>,
                          restored |-> None, replay |-> <<>>, stored |-> 0,
                          failed |-> FALSE])
    /\ UNCHANGED <<db, ttl, now, untrimmed, issued, failures>>

----------------------------------------------------------------------------
(* LangGraphRedisCheckpointer.delete_checkpoint / clear_thread_checkpoints *)
(*                                                                         *)
(* clear_thread_checkpoints calls delete_checkpoint for every id of the    *)
(* index; the commands of delete_checkpoint are the same steps in both,    *)
(* the frame telling which method they belong to.                          *)

\* A result that is True whatever was deleted.
DeleteCheckpointAlways(f) == TRUE

\* return deleted_count > 0
DeleteCheckpointResult(f) == f.deleted_count > 0

\* existed: whether the content key or the metadata key was there when the
\* call began.
DeleteCheckpointCall(p, checkpoint_id) ==
    /\ Call(p, "dc_exists",
            [op |-> "delete_checkpoint", checkpoint_id |-> checkpoint_id, deleted_count |-> 0,
             existed |-> \/ Exists(db, CheckpointKey(checkpoint_id))
                         \/ Exists(db, MetadataKey(checkpoint_id))])
    /\ UNCHANGED <<db, ttl, now, untrimmed, issued, failures>>

\* The loop of clear_thread_checkpoints goes on: the next id, or the index.
ClearThreadCheckpointsNext(p, f) ==
    IF f.checkpoint_ids = <<>>
    THEN Goto(p, "ct_delete", f)
    ELSE Goto(p, "dc_exists", [f EXCEPT !.checkpoint_id = Head(f.checkpoint_ids),
                                        !.deleted_count = 0])

\* delete_checkpoint returns r: to its caller, or into the loop of
\* clear_thread_checkpoints, which counts the True results.
DeleteCheckpointReturn(p, f, r) ==
    IF f.op = "delete_checkpoint"
    THEN ReturnFrom(p, f, r) /\ UNCHANGED log
    ELSE ClearThreadCheckpointsNext(p, [f EXCEPT !.checkpoint_ids = Tail(@),
                                                 !.cleared = @ + (IF r THEN 1 ELSE 0)])

\* if exists(checkpoint_key)
DeleteCheckpointExists(p) ==
    LET f == frame[p]
    IN  /\ pc[p] = "dc_exists"
        /\ Goto(p, IF Exists(db, CheckpointKey(f.checkpoint_id)) THEN "dc_delete"
                   ELSE "dc_mexists", f)
        /\ UNCHANGED <<db, ttl, now, untrimmed, issued, failures>>

\* delete(checkpoint_key); deleted_count += 1
DeleteCheckpointDelete(p) ==
    LET f == frame[p]
    IN  /\ pc[p] = "dc_delete"
        /\ Store(Del(db, CheckpointKey(f.checkpoint_id)), ttl)
        /\ Goto(p, "dc_mexists", [f EXCEPT !.deleted_count = @ + 1])
        /\ UNCHANGED <<now, untrimmed, issued, failures>>

\* if exists(metadata_key)
DeleteCheckpointMetadataExists(p) ==
    LET f == frame[p]
    IN  /\ pc[p] = "dc_mexists"
        /\ IF Exists(db, MetadataKey(f.checkpoint_id))
           THEN Goto(p, "dc_mdelete", f)
           ELSE DeleteCheckpointReturn(p, f, DeleteCheckpointResult(f))
        /\ UNCHANGED <<db, ttl, now, untrimmed, issued, failures>>

\* delete(metadata_key); deleted_count += 1
DeleteCheckpointMetadataDelete(p) ==
    LET f == [frame[p] EXCEPT !.deleted_count = @ + 1]
    IN  /\ pc[p] = "dc_mdelete"
        /\ Store(Del(db, MetadataKey(f.checkpoint_id)), ttl)
        /\ DeleteCheckpointReturn(p, f, DeleteCheckpointResult(f))
        /\ UNCHANGED <<now, untrimmed, issued, failures>>

\* cleared is the method's deleted_count, failed whether a delete_checkpoint
\* of the loop met an error.  referenced and removable: the ids the index
\* held when the call began, and those of them that had a content or
\* metadata key.
ClearThreadCheckpointsCall(p, thread_id) ==
    LET ids == {x.m : x \in ZSetOf(db, ThreadKey(thread_id))}
    IN  /\ Call(p, "ct_zrange",
                [op |-> "clear_thread_checkpoints", thread_id |-> thread_id,
                 checkpoint_ids |-> <<>>, checkpoint_id |-> "", deleted_count |-> 0,
                 cleared |-> 0, failed |-> FALSE, referenced |-> ids,
                 removable |-> {id \in ids : \/ Exists(db, CheckpointKey(id))
                                             \/ Exists(db, MetadataKey(id))}])
        /\ UNCHANGED <<db, ttl, now, untrimmed, issued, failures>>

\* checkpoint_ids = zrange(thread_key, 0, -1)
ClearThreadCheckpointsZrange(p) ==
    LET f == frame[p]
        key == ThreadKey(f.thread_id)
    IN  /\ pc[p] = "ct_zrange"
        /\ ~WrongType(db, key, "zset")
        /\ ClearThreadCheckpointsNext(p, [f EXCEPT !.checkpoint_ids = ZRange(db, key, 0, -1, "id")])
        /\ UNCHANGED <<db, ttl, now, untrimmed, issued, failures>>

\* delete(thread_key); return deleted_count
ClearThreadCheckpointsDelete(p) ==
    LET f == frame[p]
    IN  /\ pc[p] = "ct_delete"
        /\ Store(Del(db, ThreadKey(f.thread_id)), ttl)
        /\ Return(p, f.cleared)
        /\ UNCHANGED <<now, log, untrimmed, issued, failures>>

----------------------------------------------------------------------------
(* The environment: the clock and the backend's failures.                  *)

\* The clock advances one tick; keys whose TTL has elapsed are gone.
Tick ==
    /\ now < MaxTime
    /\ now' = now + 1
    /\ Store([k \in {k \in DOMAIN db : ~Expired(ttl, k, now + 1)} |-> db[k]], ttl)
    /\ UNCHANGED <<pc, frame, last, log, untrimmed, issued, failures, ncalls>>

\* The callers wait secs seconds between two calls (time.sleep); keys whose
\* TTL has elapsed by then are gone.
Sleep(secs) ==
    LET t == now + secs * TicksPerSecond
    IN  /\ \A p \in Clients : pc[p] = "idle"
        /\ now <= (MaxSleeps - 1) * secs * TicksPerSecond + MaxTime
        /\ now' = t
        /\ Store([k \in {k \in DOMAIN db : ~Expired(ttl, k, t)} |-> db[k]], ttl)
        /\ UNCHANGED <<pc, frame, last, log, untrimmed, issued, failures, ncalls>>

\* What a method's own `except Exception` branch returns.
ErrorResult(op) ==
    CASE op \in {"store_conversation", "store_decision", "store_agent_state",
                 "clear_agent_memory", "store_context", "store_knowledge",
                 "delete_checkpoint"} -> FALSE
      [] op \in {"get_conversation_history", "get_recent_decisions",
                 "get_knowledge_by_category", "list_checkpoints"} -> <<>>
      [] op = "clear_thread_checkpoints" -> 0
      [] op = "health_check" -> HealthError(now)
      [] op = "get_thread_statistics" -> [error |-> "str(e)"]
      [] OTHER -> None

\* A failed command that is issued again.
BackendErrorRetried(p) ==
    /\ pc[p] # "idle"
    /\ failures < MaxFailures
    /\ failures' = failures + 1
    /\ UNCHANGED <<db, ttl, now, pc, frame, last, log, untrimmed, issued, ncalls>>

\* The command client p is about to issue raises (connection lost, timeout).
\* The innermost method's except branch logs the error and returns its
\* empty result: inside search_memory that is the empty list of
\* get_conversation_history or get_recent_decisions, and the search goes on;
\* inside list_checkpoints it is the None of load_checkpoint, inside
\* get_knowledge_by_category the None of get_knowledge, inside
\* get_thread_statistics the None of load_checkpoint, and inside
\* clear_thread_checkpoints the False of delete_checkpoint, and the loop goes on;
\* inside save_agent_state and restore_agent_state it is the empty list of
\* get_conversation_history, the None of save_checkpoint and of
\* restore_from_checkpoint, and the False of store_conversation.
BackendError(p) ==
    LET f == frame[p]
    IN  /\ pc[p] # "idle"
        /\ failures < MaxFailures
        /\ failures' = failures + 1
        /\ IF pc[p] = "sm_conv" THEN Goto(p, "sm_zrevrange", [f EXCEPT !.failed = TRUE])
           ELSE IF pc[p] \in {"sm_zrevrange", "sm_get"}
           THEN /\ SearchMemoryReturn(p, [f EXCEPT !.failed = TRUE], Prefix(f.results, f.limit))
                /\ UNCHANGED log
           ELSE IF pc[p] = "ls_get" THEN ListCheckpointsNext(p, f, f.checkpoints)
           ELSE IF pc[p] = "ts_oldest" THEN Goto(p, "ts_zrevrange", f)
           ELSE IF pc[p] = "ts_newest"
           THEN ReturnFrom(p, f, ThreadStatistics(f)) /\ UNCHANGED log
           ELSE IF pc[p] = "kc_get"
           THEN GetKnowledgeByCategoryNext(p, f, f.knowledge_items) /\ UNCHANGED log
           ELSE IF pc[p] = "sa_history"
           THEN Goto(p, "sa_save", [f EXCEPT !.failed = TRUE])
           ELSE IF f.op = "save_agent_state" /\ pc[p] \in {"sc_zadd", "sc_trim", "sc_expire"}
           THEN /\ ReturnFrom(p, [f EXCEPT !.failed = TRUE], Some(f.checkpoint_id))
                /\ UNCHANGED log
           ELSE IF f.op = "restore_agent_state" /\ pc[p] \in {"sc_zadd", "sc_trim", "sc_expire"}
           THEN /\ RestoreAgentStateNext(p, [f EXCEPT !.replay = Tail(@), !.failed = TRUE])
                /\ UNCHANGED log
           ELSE IF pc[p] \in {"dc_exists", "dc_delete", "dc_mexists", "dc_mdelete"}
                   /\ f.op = "clear_thread_checkpoints"
           THEN ClearThreadCheckpointsNext(p, [f EXCEPT !.checkpoint_ids = Tail(@),
                                                        !.failed = TRUE])
           ELSE IF f.op = "checkpoint_wrapper"
           THEN /\ SaveCheckpointReturn(p, [f EXCEPT !.failed = TRUE], None)
                /\ UNCHANGED log
           ELSE Raise(p, ErrorResult(f.op)) /\ UNCHANGED log
        /\ UNCHANGED <<db, ttl, now, untrimmed, issued>>

----------------------------------------------------------------------------
(* Specifications.                                                         *)

\* One client storing into the three bounded collections, call after call.
Next ==
    \/ \E d \in {Topic, Note} : StoreConversationCall("c1", "a1", d)
    \/ StoreConversationZadd("c1")
    \/ StoreConversationTrim("c1")
    \/ StoreConversationExpire("c1")
    \/ StoreDecisionCall("c1", "a1", Note)
    \/ StoreDecisionSetex("c1")
    \/ StoreDecisionZadd("c1")
    \/ StoreDecisionTrim("c1")
    \/ SaveCheckpointCall("c1", "t1", StepZero, None)
    \/ SaveCheckpointSetex("c1")
    \/ SaveCheckpointZadd("c1")
    \/ SaveCheckpointTrim("c1")
    \/ Tick

Spec == Init /\ [][Next]_vars

\* One client storing and reading one agent's conversations, call after call.
NextConversation ==
    \/ \E d \in Payloads : StoreConversationCall("c1", "a1", d)
    \/ StoreConversationZadd("c1")
    \/ StoreConversationTrim("c1")
    \/ StoreConversationExpire("c1")
    \/ GetConversationHistoryCall("c1", "a1", 1)
    \/ GetConversationHistoryZrevrange("c1")
    \/ Tick

SpecConversation == Init /\ [][NextConversation]_vars

\* One client saving checkpoints of one thread and reading the latest.
NextCheckpoint ==
    \/ SaveCheckpointCall("c1", "t1", StepZero, None)
    \/ SaveCheckpointCall("c1", "t1", StepOne, Some(Tagged))
    \/ SaveCheckpointSetex("c1")
    \/ SaveCheckpointZadd("c1")
    \/ SaveCheckpointTrim("c1")
    \/ SaveCheckpointMetadata("c1")
    \/ GetLatestCheckpointCall("c1", "t1")
    \/ GetLatestCheckpointZrevrange("c1")
    \/ GetLatestCheckpointGet("c1")
    \/ Tick

SpecCheckpoint == Init /\ [][NextCheckpoint]_vars

\* One client filling and clearing one agent's memory, call after call, while
\* backend commands fail.  The index read of clear_agent_memory follows the
\* deletion of the index, so with one client it finds no id and the loop over
\* the ids has no step to take.
NextClear ==
    \/ StoreConversationCall("c1", "a1", Note)
    \/ StoreConversationZadd("c1")
    \/ StoreConversationTrim("c1")
    \/ StoreConversationExpire("c1")
    \/ StoreDecisionCall("c1", "a1", Note)
    \/ StoreDecisionSetex("c1")
    \/ StoreDecisionZadd("c1")
    \/ StoreDecisionTrim("c1")
    \/ StoreAgentStateCall("c1", "a1", Note)
    \/ StoreAgentStateSet("c1")
    \/ ClearAgentMemoryCall("c1", "a1")
    \/ ClearAgentMemoryExists("c1")
    \/ ClearAgentMemoryDelete("c1")
    \/ ClearAgentMemoryZrange("c1")
    \/ BackendError("c1")
    \/ Tick

SpecClear == Init /\ [][NextClear]_vars

\* A second client storing decisions while the first clears the agent's
\* memory: the index can be back by the time it is read.
NextClearRace ==
    \/ StoreDecisionCall("c2", "a1", Note)
    \/ StoreDecisionSetex("c2")
    \/ StoreDecisionZadd("c2")
    \/ StoreDecisionTrim("c2")
    \/ ClearAgentMemoryCall("c1", "a1")
    \/ ClearAgentMemoryExists("c1")
    \/ ClearAgentMemoryDelete("c1")
    \/ ClearAgentMemoryZrange("c1")
    \/ ClearAgentMemoryDecisionExists("c1")
    \/ ClearAgentMemoryDecisionDelete("c1")
    \/ Tick

SpecClearRace == Init /\ [][NextClearRace]_vars

\* One client storing and reading decisions, agent state and checkpoints
\* while backend commands fail.
NextRead ==
    \/ StoreDecisionCall("c1", "a1", Numbered)
    \/ StoreDecisionSetex("c1")
    \/ StoreDecisionZadd("c1")
    \/ StoreDecisionTrim("c1")
    \/ GetRecentDecisionsCall("c1", "a1", DefaultDecisionLimit)
    \/ GetRecentDecisionsZrevrange("c1")
    \/ GetRecentDecisionsGet("c1")
    \/ StoreAgentStateCall("c1", "a1", Note)
    \/ StoreAgentStateSet("c1")
    \/ GetAgentStateCall("c1", "a1")
    \/ GetAgentStateGet("c1")
    \/ SaveCheckpointCall("c1", "t1", StepZero, Some(Tagged))
    \/ SaveCheckpointSetex("c1")
    \/ SaveCheckpointZadd("c1")
    \/ SaveCheckpointTrim("c1")
    \/ SaveCheckpointMetadata("c1")
    \/ \E id \in issued : LoadCheckpointCall("c1", id)
    \/ LoadCheckpointGet("c1")
    \/ BackendError("c1")
    \/ Tick

SpecRead == Init /\ [][NextRead]_vars

\* One client storing conversations and decisions of two agents and searching
\* one agent's memory.
NextSearch ==
    \/ \E d \in {Topic, Note} : StoreConversationCall("c1", "a1", d)
    \/ StoreConversationCall("c1", "a2", Topic)
    \/ StoreConversationZadd("c1")
    \/ StoreConversationTrim("c1")
    \/ StoreConversationExpire("c1")
    \/ \E a \in Agents : StoreDecisionCall("c1", a, Topic)
    \/ StoreDecisionSetex("c1")
    \/ StoreDecisionZadd("c1")
    \/ StoreDecisionTrim("c1")
    \/ \E n \in Limits : SearchMemoryCall("c1", "MINING", Some("a1"), n)
    \/ SearchMemoryConversations("c1")
    \/ SearchMemoryZrevrange("c1")
    \/ SearchMemoryGet("c1")
    \/ Tick

SpecSearch == Init /\ [][NextSearch]_vars

\* One client probing the backend's health between context stores, while
\* backend commands fail.
NextHealth ==
    \/ HealthCheckCall("c1")
    \/ HealthCheckSetex("c1")
    \/ HealthCheckGet("c1")
    \/ HealthCheckDelete("c1")
    \/ \E d \in {Topic, Note} : StoreContextCall("c1", "x", d, 1)
    \/ StoreContextSetex("c1")
    \/ BackendError("c1")
    \/ Tick

SpecHealth == Init /\ [][NextHealth]_vars

ContextIds == {"x", "y"}
ContextTtls == {0, 1, 2}

\* One client storing and reading contexts with short TTLs, waiting a second
\* between calls now and then.
NextContext ==
    \/ \E id \in ContextIds, secs \in ContextTtls : StoreContextCall("c1", id, Note, secs)
    \/ StoreContextCall("c1", "x", Numbered, 1)
    \/ StoreContextSetex("c1")
    \/ \E id \in ContextIds : GetContextCall("c1", id)
    \/ GetContextGet("c1")
    \/ Tick
    \/ Sleep(1)

SpecContext == Init /\ [][NextContext]_vars

\* One client storing, reading and searching one agent's memory and asking
\* for the statistics while backend commands fail.
NextErrors ==
    \/ StoreConversationCall("c1", "a1", Topic)
    \/ StoreConversationZadd("c1")
    \/ StoreConversationTrim("c1")
    \/ StoreConversationExpire("c1")
    \/ StoreDecisionCall("c1", "a1", Topic)
    \/ StoreDecisionSetex("c1")
    \/ StoreDecisionZadd("c1")
    \/ StoreDecisionTrim("c1")
    \/ GetAgentStateCall("c1", "a1")
    \/ GetAgentStateGet("c1")
    \/ SearchMemoryCall("c1", "MINING", Some("a1"), 1)
    \/ SearchMemoryConversations("c1")
    \/ SearchMemoryZrevrange("c1")
    \/ SearchMemoryGet("c1")
    \/ GetMemoryStatsCall("c1")
    \/ GetMemoryStatsInfo("c1")
    \/ GetMemoryStatsDbsize("c1")
    \/ GetMemoryStatsKeys("c1")
    \/ BackendError("c1")
    \/ Tick

SpecErrors == Init /\ [][NextErrors]_vars

Categories == {"index", "x"}
KnowledgeIds == {"x", "k"}

\* One client storing and reading knowledge in two categories.
NextKnowledge ==
    \/ \E id \in KnowledgeIds, c \in Categories : StoreKnowledgeCall("c1", id, Note, c)
    \/ StoreKnowledgeSet("c1")
    \/ StoreKnowledgeSadd("c1")
    \/ \E id \in KnowledgeIds, c \in Categories : GetKnowledgeCall("c1", id, c)
    \/ GetKnowledgeGet("c1")
    \/ Tick

SpecKnowledge == Init /\ [][NextKnowledge]_vars

\* One client storing and reading the decisions of two agents, a week passing
\* between calls now and then.
NextExpiry ==
    \/ \E a \in Agents : StoreDecisionCall("c1", a, Note)
    \/ StoreDecisionSetex("c1")
    \/ StoreDecisionZadd("c1")
    \/ StoreDecisionTrim("c1")
    \/ \E a \in Agents : GetRecentDecisionsCall("c1", a, DefaultDecisionLimit)
    \/ GetRecentDecisionsZrevrange("c1")
    \/ GetRecentDecisionsGet("c1")
    \/ Sleep(DecisionTTL)

SpecExpiry == Init /\ [][NextExpiry]_vars

\* One client saving checkpoints of one thread, with and without metadata,
\* within one tick of the clock, while backend commands fail.
NextSave ==
    \/ SaveCheckpointCall("c1", "t1", StepZero, None)
    \/ SaveCheckpointCall("c1", "t1", StepOne, Some(Tagged))
    \/ SaveCheckpointSetex("c1")
    \/ SaveCheckpointZadd("c1")
    \/ SaveCheckpointTrim("c1")
    \/ SaveCheckpointMetadata("c1")
    \/ BackendError("c1")

SpecSave == Init /\ [][NextSave]_vars

\* One client saving checkpoints of one thread, deleting and loading the
\* checkpoints saved so far, call after call within one tick of the clock.
NextDelete ==
    \/ SaveCheckpointCall("c1", "t1", StepZero, None)
    \/ SaveCheckpointCall("c1", "t1", StepOne, Some(Tagged))
    \/ SaveCheckpointSetex("c1")
    \/ SaveCheckpointZadd("c1")
    \/ SaveCheckpointTrim("c1")
    \/ SaveCheckpointMetadata("c1")
    \/ \E id \in issued : DeleteCheckpointCall("c1", id)
    \/ DeleteCheckpointExists("c1")
    \/ DeleteCheckpointDelete("c1")
    \/ DeleteCheckpointMetadataExists("c1")
    \/ DeleteCheckpointMetadataDelete("c1")
    \/ \E id \in issued : LoadCheckpointCall("c1", id)
    \/ LoadCheckpointGet("c1")

SpecDelete == Init /\ [][NextDelete]_vars

\* One client saving checkpoints of two threads and clearing a thread, call
\* after call, a day passing between calls now and then.
NextThread ==
    \/ SaveCheckpointCall("c1", "t1", StepOne, Some(Tagged))
    \/ SaveCheckpointCall("c1", "t2", StepZero, None)
    \/ SaveCheckpointSetex("c1")
    \/ SaveCheckpointZadd("c1")
    \/ SaveCheckpointTrim("c1")
    \/ SaveCheckpointMetadata("c1")
    \/ \E t \in Threads : ClearThreadCheckpointsCall("c1", t)
    \/ ClearThreadCheckpointsZrange("c1")
    \/ DeleteCheckpointExists("c1")
    \/ DeleteCheckpointDelete("c1")
    \/ DeleteCheckpointMetadataExists("c1")
    \/ DeleteCheckpointMetadataDelete("c1")
    \/ ClearThreadCheckpointsDelete("c1")
    \/ Sleep(CheckpointTTL)

SpecThread == Init /\ [][NextThread]_vars

\* One client saving checkpoints of one thread, deleting and loading the
\* checkpoints saved so far, a day passing between calls now and then.
NextRoundTrip ==
    \/ SaveCheckpointCall("c1", "t1", Numbered, None)
    \/ SaveCheckpointCall("c1", "t1", StepOne, Some(Tagged))
    \/ SaveCheckpointSetex("c1")
    \/ SaveCheckpointZadd("c1")
    \/ SaveCheckpointTrim("c1")
    \/ SaveCheckpointMetadata("c1")
    \/ \E id \in issued : DeleteCheckpointCall("c1", id)
    \/ DeleteCheckpointExists("c1")
    \/ DeleteCheckpointDelete("c1")
    \/ DeleteCheckpointMetadataExists("c1")
    \/ DeleteCheckpointMetadataDelete("c1")
    \/ \E id \in issued : LoadCheckpointCall("c1", id)
    \/ LoadCheckpointGet("c1")
    \/ Sleep(CheckpointTTL)

SpecRoundTrip == Init /\ [][NextRoundTrip]_vars

\* One client saving checkpoints of one thread and restoring from the
\* checkpoints saved so far, within one tick of the clock, while backend
\* commands fail.
NextRestore ==
    \/ SaveCheckpointCall("c1", "t1", StepZero, None)
    \/ SaveCheckpointCall("c1", "t1", StepOne, Some(Tagged))
    \/ SaveCheckpointSetex("c1")
    \/ SaveCheckpointZadd("c1")
    \/ SaveCheckpointTrim("c1")
    \/ SaveCheckpointMetadata("c1")
    \/ \E id \in issued : RestoreFromCheckpointCall("c1", id)
    \/ RestoreFromCheckpointGet("c1")
    \/ BackendError("c1")

SpecRestore == Init /\ [][NextRestore]_vars

\* One client saving checkpoints of one thread and listing them, call after
\* call, the clock ticking now and then.
NextList ==
    \/ SaveCheckpointCall("c1", "t1", StepZero, None)
    \/ SaveCheckpointSetex("c1")
    \/ SaveCheckpointZadd("c1")
    \/ SaveCheckpointTrim("c1")
    \/ \E limit \in Limits \ {0} : ListCheckpointsCall("c1", "t1", limit)
    \/ ListCheckpointsZrevrange("c1")
    \/ ListCheckpointsGet("c1")
    \/ Tick

SpecList == Init /\ [][NextList]_vars

\* One client storing and reading the decisions of one agent, the clock
\* ticking and a week passing between calls now and then, while backend
\* commands fail: a store_decision that fails at its trim leaves the index
\* one id above its bound.
NextDecisions ==
    \/ StoreDecisionCall("c1", "a1", Note)
    \/ StoreDecisionSetex("c1")
    \/ StoreDecisionZadd("c1")
    \/ StoreDecisionTrim("c1")
    \/ \E limit \in Limits \ {0} : GetRecentDecisionsCall("c1", "a1", limit)
    \/ GetRecentDecisionsZrevrange("c1")
    \/ GetRecentDecisionsGet("c1")
    \/ BackendError("c1")
    \/ Tick
    \/ Sleep(DecisionTTL)

SpecDecisions == Init /\ [][NextDecisions]_vars

\* The rounds of test_performance_under_load, and the numbers of rounds the
\* store is loaded with below.
LoadRounds == 100
Loads == {1, 2, DefaultDecisionLimit, DefaultHistoryLimit, LoadRounds}

\* The payloads of round i.
Iteration(i) == <<Item(PyStr("iteration"), PyInt(ToString(i)))>>
Decision(i) == <<Item(PyStr("decision"), PyInt(ToString(i)))>>

\* Round i = 0 .. n - 1 of the load runs at tick i: store_conversation(a,
\* {'iteration': i}) adds LoadedConversation(a, i) to the conversation set
\* and store_decision(a, {'decision': i}) writes LoadedDecision(a, i) under
\* its content key and adds its id to the index, each at score i.
LoadedConversation(a, i) ==
    ConversationEntry([timestamp |-> IsoFormat(i), data |-> Iteration(i), agent_id |-> a])
LoadedDecisionId(a, i) == Md5Hex(a \o "_" \o IsoFormat(i))
LoadedDecision(a, i) ==
    DecisionEntry([agent_id |-> a, data |-> Decision(i),
                   decision_id |-> LoadedDecisionId(a, i)], i)

\* The keyspace, the expiry table and the log after n rounds.  The rounds
\* are fewer than the code's retention of either collection, so its trims
\* remove nothing.
Loaded(a, n) ==
    LET rounds == 0..(n - 1)
        ckey == ConversationKey(a)
        ikey == DecisionIndexKey(a)
        dkeys == {DecisionKey(LoadedDecisionId(a, i)) : i \in rounds}
        round(k) == CHOOSE i \in rounds : DecisionKey(LoadedDecisionId(a, i)) = k
    IN  [db |-> [k \in {ckey, ikey} \cup dkeys |->
                   IF k = ckey
                   THEN [t |-> "zset",
                         v |-> {[m |-> LoadedConversation(a, i), s |-> Timestamp(i)] :
                                   i \in rounds}]
                   ELSE IF k = ikey
                   THEN [t |-> "zset",
                         v |-> {[m |-> LoadedDecisionId(a, i), s |-> Timestamp(i)] :
                                   i \in rounds}]
                   ELSE [t |-> "string", v |-> LoadedDecision(a, round(k))]],
         ttl |-> [k \in {ckey} \cup dkeys |->
                    IF k = ckey
                    THEN [at |-> Milliseconds(n - 1), secs |-> ConversationTTL]
                    ELSE [at |-> Milliseconds(round(k)), secs |-> DecisionTTL]],
         log |-> [k \in {ckey, ikey} \cup dkeys |->
                    IF k = ckey THEN [i \in 1..n |-> LoadedConversation(a, i - 1)]
                    ELSE IF k = ikey THEN [i \in 1..n |-> LoadedDecisionId(a, i - 1)]
                    ELSE <<[agent_id |-> a, data |-> Decision(round(k)), at |-> round(k)]>>]]

\* The store after the load of test_performance_under_load, cut at one of
\* the numbers of rounds of Loads; no call is under way.
InitLoad ==
    \E n \in Loads :
        /\ db = Loaded("a1", n).db
        /\ ttl = Loaded("a1", n).ttl
        /\ log = Loaded("a1", n).log
        /\ now = n - 1
        /\ pc = [p \in Clients |-> "idle"]
        /\ frame = [p \in Clients |-> Idle]
        /\ last = [call |-> Idle, ret |-> None, error |-> FALSE]
        /\ untrimmed = <<>>
        /\ issued = {}
        /\ failures = 0
        /\ ncalls = 0

\* One client reading the conversations and the decisions of the loaded
\* agent, both without a limit argument.
NextLoad ==
    \/ GetConversationHistoryCall("c1", "a1", DefaultHistoryLimit)
    \/ GetConversationHistoryZrevrange("c1")
    \/ GetRecentDecisionsCall("c1", "a1", DefaultDecisionLimit)
    \/ GetRecentDecisionsZrevrange("c1")
    \/ GetRecentDecisionsGet("c1")

SpecLoad == InitLoad /\ [][NextLoad]_vars

----------------------------------------------------------------------------
(* Retention of the bounded collections.                                   *)

Members(d, key) == {x.m : x \in ZSetOf(d, key)}

Min(a, b) == IF a < b THEN a ELSE b

Last(s) == s[Len(s)]

\* The members the last n successful store calls added under key.
MostRecent(key, n) == {LogOf(key)[i] : i \in (Len(LogOf(key)) - n + 1)..Len(LogOf(key))}

\* key holds no more than bound members beyond the inserts not yet trimmed.
TrimmedTo(key, bound) == ZCard(db, key) <= bound + Untrimmed(key)

C2_MostRecentConversations ==
    \A a \in Agents :
        LET key == ConversationKey(a)
            n == Min(Len(LogOf(key)), MaxConversations)
        IN  (\A p \in Clients : pc[p] = "idle") =>
                /\ ZCard(db, key) = n
                /\ Members(db, key) = MostRecent(key, n)

\* C3 as stated: after k completed save_checkpoint calls for a thread the
\* thread index holds exactly min(k, MaxCheckpoints) ids, those saved most
\* recently.
C3_MostRecentCheckpoints ==
    \A t \in Threads :
        LET key == ThreadKey(t)
            n == Min(Len(LogOf(key)), MaxCheckpoints)
        IN  (\A p \in Clients : pc[p] = "idle") =>
                /\ ZCard(db, key) = n
                /\ Members(db, key) = MostRecent(key, n)

\* C4 as stated, for payloads JSON leaves as they are: get_conversation_history(a, 1)
\* right after a successful store_conversation(a, p) returns exactly one
\* record, with payload p and agent id a.
C4_StoreThenGet ==
    \A a \in Agents :
        LET key == ConversationKey(a)
        IN  /\ pc["c1"] = "idle"
            /\ last.call.op = "get_conversation_history"
            /\ last.call.agent_id = a /\ last.call.limit = 1
            /\ LogOf(key) # <<>>
            /\ \E d \in Payloads : JsonDict(d) = d /\ Last(LogOf(key)).data = d
            => /\ Len(last.ret) = 1
               /\ last.ret[1].data = Last(LogOf(key)).data
               /\ last.ret[1].agent_id = a

\* C5 as stated: after one or more completed save_checkpoint calls on a
\* thread, get_latest_checkpoint returns the record of the last one.
C5_LatestIsLastSaved ==
    \A t \in Threads :
        LET key == ThreadKey(t)
        IN  /\ pc["c1"] = "idle"
            /\ last.call.op = "get_latest_checkpoint"
            /\ last.call.thread_id = t
            /\ LogOf(key) # <<>>
            => /\ last.ret # None
               /\ last.ret[1].checkpoint_id = Last(LogOf(key))

----------------------------------------------------------------------------
(* clear_agent_memory.                                                     *)

\* The most recent call to return was a clear_agent_memory(a) that met no
\* backend error, and client c1 has begun nothing since.
Cleared(a) ==
    /\ pc["c1"] = "idle"
    /\ last.call.op = "clear_agent_memory"
    /\ last.call.agent_id = a
    /\ ~last.error

\* C6 as stated: after clear_agent_memory(a) returns without a backend error,
\* the backend holds neither a's conversation key, decision index or state key
\* nor a decision content key whose id the index referenced when the call began.
C6_ClearRemovesEverything ==
    \A a \in Agents :
        Cleared(a) =>
            /\ ~Exists(db, ConversationKey(a))
            /\ ~Exists(db, DecisionIndexKey(a))
            /\ ~Exists(db, AgentStateKey(a))
            /\ \A id \in last.call.referenced : ~Exists(db, DecisionKey(id))

\* Client c1 takes a step of a clear_agent_memory(a) that it began right after
\* a clear_agent_memory(a) had returned without a backend error.
SecondClearStep(a) ==
    /\ last.call.op = "clear_agent_memory" /\ last.call.agent_id = a /\ ~last.error
    /\ pc["c1"] # "idle"
    /\ frame["c1"].op = "clear_agent_memory" /\ frame["c1"].agent_id = a
    /\ pc'["c1"] # pc["c1"] \/ frame'["c1"] # frame["c1"]

\* C7: clear_agent_memory(a) called twice in a row returns both times; after
\* the first call get_conversation_history(a, 50) and get_recent_decisions(a)
\* are empty and get_agent_state(a) is absent, and no step of the second call
\* changes the backend state.
C7_ClearTwice ==
    /\ [](\A a \in Agents :
            Cleared(a) =>
                /\ last.ret = TRUE
                /\ ConversationHistory(db, a, DefaultHistoryLimit) = <<>>
                /\ RecentDecisions(db, a, DefaultDecisionLimit) = <<>>
                /\ AgentState(db, a) = None)
    /\ [][\A a \in Agents : SecondClearStep(a) => db' = db /\ ttl' = ttl]_vars

\* The second of two clear calls in a row has checked all three keys, the
\* first having removed one.
C7_Witness ==
    /\ last.call.op = "clear_agent_memory" /\ ~last.error
    /\ last.call.deleted_count > 0
    /\ pc["c1"] = "ca_zrange"
    /\ frame["c1"].agent_id = last.call.agent_id
    /\ frame["c1"].deleted_count = 0

\* C8 as stated: with no backend error, clear_agent_memory returns true
\* exactly when it removed at least one key.
C8_TrueIffRemoved ==
    \A a \in Agents :
        Cleared(a) => (last.ret = TRUE <=> last.call.deleted_count > 0)

\* C8 amended: clear_agent_memory returns true exactly when it met no backend
\* error, whether or not it removed a key.
C8_TrueIffNoError ==
    \A a \in Agents :
        pc["c1"] = "idle" /\ last.call.op = "clear_agent_memory" /\ last.call.agent_id = a
            => (last.ret = TRUE <=> ~last.error)

\* A clear that removed nothing has returned true.
C8_Witness ==
    /\ Cleared("a1")
    /\ last.call.deleted_count = 0
    /\ last.ret = TRUE

----------------------------------------------------------------------------
(* search_memory.                                                          *)

\* The most recent call to return was a search_memory for agent a.
Searched(a) ==
    /\ pc["c1"] = "idle"
    /\ last.call.op = "search_memory"
    /\ last.call.agent = Some(a)

Range(s) == {s[i] : i \in 1..Len(s)}

\* hit is a conversation / a decision that a successful store call of agent a
\* put into the store.
StoredConversation(a, hit) ==
    /\ hit.type = "conversation"
    /\ hit.data \in Range(LogOf(ConversationKey(a)))

StoredDecision(a, hit) ==
    /\ hit.type = "decision"
    /\ hit.data.decision_id \in Range(LogOf(DecisionIndexKey(a)))

\* C9: every hit of search_memory(query, agent_id = a) is a conversation or a
\* decision record that was stored for agent a.
C9_HitsOfTheAgent ==
    \A a \in Agents :
        Searched(a) =>
            \A i \in 1..Len(last.ret) :
                /\ last.ret[i].data.agent_id = a
                /\ StoredConversation(a, last.ret[i]) \/ StoredDecision(a, last.ret[i])

\* A search of a1 has returned a hit while a2 has a record holding the query.
C9_Witness ==
    /\ Searched("a1")
    /\ last.ret # <<>>
    /\ \/ \E m \in Members(db, ConversationKey("a2")) :
              Matches(last.call.query, ConversationText(m))
       \/ \E m \in Members(db, DecisionIndexKey("a2")) :
              /\ Exists(db, DecisionKey(m))
              /\ Matches(last.call.query, DecisionText(db[DecisionKey(m)].v))

\* The n highest-ranking elements of the sorted set under key.
Newest(key, n, kind) ==
    {x \in ZSetOf(db, key) : Cardinality({y \in ZSetOf(db, key) : ZLess(x, y, kind)}) < n}

\* The matching records among a's newest 2 * n conversations and decisions,
\* each with its tags and its place in the scan: its score and member text.
WindowHits(a, query, n) ==
    {[hit |-> [type |-> "conversation", relevance |-> "high", data |-> x.m],
      at |-> [s |-> x.s, m |-> ConversationText(x.m)]] :
        x \in {y \in Newest(ConversationKey(a), 2 * n, "conversation") :
                  Contains(Lower(ConversationText(y.m)), Lower(query))}}
    \cup
    {[hit |-> [type |-> "decision", relevance |-> "medium", data |-> db[DecisionKey(x.m)].v],
      at |-> x] :
        x \in {y \in Newest(DecisionIndexKey(a), 2 * n, "id") :
                  /\ Exists(db, DecisionKey(y.m))
                  /\ Contains(Lower(DecisionText(db[DecisionKey(y.m)].v)), Lower(query))}}

\* The scan reaches g before h: conversations first, newest first within a kind.
ScannedBefore(g, h) ==
    \/ g.hit.type = "conversation" /\ h.hit.type = "decision"
    \/ g.hit.type = h.hit.type /\ ZLess(h.at, g.at, "id")

C10_WitnessCut ==
    /\ Searched("a1")
    /\ Len(last.ret) = last.call.limit
    /\ \E w \in WindowHits("a1", last.call.query, last.call.limit) : w.hit \notin Range(last.ret)

\* A search has left out a record that does not hold the query.
C10_WitnessMiss ==
    /\ Searched("a1")
    /\ last.ret # <<>>
    /\ \E m \in Members(db, ConversationKey("a1")) :
          ~Contains(Lower(ConversationText(m)), Lower(last.call.query))

----------------------------------------------------------------------------
(* health_check.                                                           *)

\* C11: health_check always returns a result.  Called by a single caller it
\* returns status healthy with redis_connected and read_write_ok true when all
\* three commands of the probe were answered, and status unhealthy with
\* redis_connected false when one of them failed.
C11_HealthCheck ==
    pc["c1"] = "idle" /\ last.call.op = "health_check" =>
        IF last.error
        THEN last.ret.status = "unhealthy" /\ last.ret.redis_connected = FALSE
        ELSE /\ last.ret.status = "healthy"
             /\ last.ret.redis_connected = TRUE
             /\ last.ret.read_write_ok = TRUE

\* A probe has come back healthy after an earlier command of the client failed.
C11_Witness ==
    /\ pc["c1"] = "idle"
    /\ last.call.op = "health_check" /\ ~last.error
    /\ last.ret.status = "healthy"
    /\ failures > 0

\* A probe has come back unhealthy from its except branch.
C11_WitnessDown ==
    /\ pc["c1"] = "idle"
    /\ last.call.op = "health_check" /\ last.error
    /\ last.ret.status = "unhealthy"

----------------------------------------------------------------------------
(* The error policy of RedisMemoryStore.                                   *)

\* The most recent call to return met a backend error at one of its commands.
MetBackendError ==
    \/ last.error
    \/ last.call.op = "search_memory" /\ last.call.failed

\* C12 as stated: a RedisMemoryStore operation one of whose backend commands
\* failed returns False when it is a store or a clear, the empty list when it
\* reads a sequence (search_memory included), None when it reads one record,
\* and the empty mapping when it is get_memory_stats.
C12_FailedCallsReturnEmpty ==
    pc["c1"] = "idle" /\ MetBackendError =>
        CASE last.call.op \in {"store_conversation", "store_context", "store_decision",
                               "store_knowledge", "store_agent_state",
                               "clear_agent_memory"} -> last.ret = FALSE
          [] last.call.op \in {"get_conversation_history", "get_recent_decisions",
                               "search_memory"} -> last.ret = <<>>
          [] last.call.op \in {"get_context", "get_knowledge", "get_agent_state"} ->
                last.ret = None
          [] last.call.op = "get_memory_stats" -> last.ret = <<>>
          [] OTHER -> TRUE
----------------------------------------------------------------------------
(* The key scheme.                                                         *)

\* C14 as stated, for knowledge records: the content key of (category, id)
\* and the index key of a category are keys of their own, so with a live
\* backend every store_knowledge returns True, and every (category, id) stored
\* so far still has its id in the category's index set and its own entry
\* under its content key.
C14_NoCollision ==
    /\ pc["c1"] = "idle" /\ last.call.op = "store_knowledge" => last.ret = TRUE
    /\ \A c \in Categories :
          \A id \in {e.knowledge_id : e \in Range(LogOf(KnowledgeIndexKey(c)))} :
              /\ Exists(db, KnowledgeIndexKey(c))
              /\ db[KnowledgeIndexKey(c)].t = "set"
              /\ id \in db[KnowledgeIndexKey(c)].v
              /\ Exists(db, KnowledgeKey(c, id))
              /\ db[KnowledgeKey(c, id)].t = "string"
              /\ db[KnowledgeKey(c, id)].v.category = c
              /\ db[KnowledgeKey(c, id)].v.knowledge_id = id
----------------------------------------------------------------------------
(* Contexts and their TTL.                                                 *)

\* Client c1's get_context(id) returns in this step.
GetContextReturns(id) ==
    /\ pc["c1"] = "gx_get" /\ frame["c1"].context_id = id
    /\ pc'["c1"] = "idle"
    /\ failures' = failures

C13_WitnessExpired ==
    /\ pc["c1"] = "idle"
    /\ last.call.op = "get_context" /\ last.call.context_id = "x"
    /\ last.ret = None
    /\ LogOf(ContextKey("x")) # <<>>
    /\ now - Last(LogOf(ContextKey("x"))).at > Last(LogOf(ContextKey("x"))).ttl * TicksPerSecond

----------------------------------------------------------------------------
(* The decision index and the expiry of the decision content.              *)

\* C15 as stated: in every reachable state, every decision id that an
\* agent's decision index references has its content key in the backend: the
\* id has left the index by the time its content expires.
C15_IndexedContentAlive ==
    \A a \in Agents :
        \A id \in Members(db, DecisionIndexKey(a)) : Exists(db, DecisionKey(id))

----------------------------------------------------------------------------
(* The order of the writes of save_checkpoint.                             *)

\* The value under the metadata key of checkpoint id in keyspace d, or None.
Metadata(d, id) == Get(d, MetadataKey(id))

\* C16: in every reachable state, every checkpoint id that a thread index
\* holds had its content key written before (a content key without an index
\* entry may remain, never an index entry without a content write); and a
\* save_checkpoint whose content write fails returns None and leaves every
\* thread index and every metadata key as they were.
C16_ContentBeforeIndex ==
    /\ [](\A t \in Threads :
            \A id \in Members(db, ThreadKey(t)) : LogOf(CheckpointKey(id)) # <<>>)
    /\ [][\A p \in Clients :
            pc[p] = "sv_setex" /\ pc'[p] = "idle" =>
                /\ last'.ret = None
                /\ \A t \in Threads : ZSetOf(db', ThreadKey(t)) = ZSetOf(db, ThreadKey(t))
                /\ \A id \in issued : Metadata(db', id) = Metadata(db, id)]_vars

\* A save_checkpoint failed after its content write: the content key is
\* there and no thread index holds its id, while an earlier save has left
\* an index entry and a metadata key.
C16_Witness ==
    /\ last.call.op = "save_checkpoint" /\ last.error /\ last.ret = None
    /\ Exists(db, CheckpointKey(last.call.checkpoint_id))
    /\ \A t \in Threads : last.call.checkpoint_id \notin Members(db, ThreadKey(t))
    /\ \E id \in Members(db, ThreadKey("t1")) : Metadata(db, id) # None

\* A save_checkpoint failed at its content write while the index and the
\* metadata table were not empty.
C16_WitnessContent ==
    /\ last.call.op = "save_checkpoint" /\ last.error /\ last.ret = None
    /\ LogOf(CheckpointKey(last.call.checkpoint_id)) = <<>>
    /\ \E id \in Members(db, ThreadKey("t1")) : Metadata(db, id) # None

----------------------------------------------------------------------------
(* delete_checkpoint.                                                      *)

\* The last call to return was a delete_checkpoint that met no error.
Deleted == last.call.op = "delete_checkpoint" /\ ~last.error

\* C17: once delete_checkpoint(id) has returned, the content key and the
\* metadata key of id are gone and load_checkpoint(id) gives None; the call
\* returns True exactly when one of the two keys was there; and no step of
\* delete_checkpoint changes a thread index, so the id stays in the index of
\* its thread.
C17_DeleteRemovesKeys ==
    /\ [](Deleted =>
            /\ ~Exists(db, CheckpointKey(last.call.checkpoint_id))
            /\ ~Exists(db, MetadataKey(last.call.checkpoint_id))
            /\ LoadCheckpoint(db, last.call.checkpoint_id) = None
            /\ last.ret = last.call.existed)
    /\ [][\A p \in Clients :
            frame[p].op = "delete_checkpoint" =>
                \A t \in Threads : ZSetOf(db', ThreadKey(t)) = ZSetOf(db, ThreadKey(t))]_vars

\* delete_checkpoint has removed the content key and the metadata key of a
\* saved checkpoint and returned True; the thread index still holds the id.
C17_Witness ==
    /\ Deleted /\ last.ret = TRUE
    /\ last.call.deleted_count = 2
    /\ last.call.checkpoint_id \in Members(db, ThreadKey("t1"))

\* delete_checkpoint of a checkpoint deleted before has returned False.
C17_WitnessTwice ==
    /\ Deleted /\ last.ret = FALSE
    /\ last.call.checkpoint_id \in Members(db, ThreadKey("t1"))

----------------------------------------------------------------------------
(* clear_thread_checkpoints.                                               *)

\* The last call to return was a clear_thread_checkpoints of thread t that
\* met no error, and no call has begun since.
ClearedThread(t) ==
    /\ last.call.op = "clear_thread_checkpoints" /\ last.call.thread_id = t
    /\ ~last.error /\ ~last.call.failed
    /\ \A p \in Clients : pc[p] = "idle"

\* Thread u's index and the content and metadata of the ids it holds are the
\* same in the next state.
ThreadUntouched(u) ==
    /\ ZSetOf(db', ThreadKey(u)) = ZSetOf(db, ThreadKey(u))
    /\ \A id \in Members(db, ThreadKey(u)) :
        /\ LoadCheckpoint(db', id) = LoadCheckpoint(db, id)
        /\ Metadata(db', id) = Metadata(db, id)

\* C18: once clear_thread_checkpoints(t) has returned with no backend command
\* failed, no id that t's index referenced has a content or a metadata key,
\* the index is gone, the result is the number of referenced ids that had
\* one of the two keys, list_checkpoints(t) is empty, get_latest_checkpoint(t)
\* is None and the thread counts no checkpoint; and no step of the call
\* changes another thread's index or checkpoints.
C18_ClearThread ==
    /\ [](\A t \in Threads :
            ClearedThread(t) =>
                /\ \A id \in last.call.referenced :
                    /\ ~Exists(db, CheckpointKey(id))
                    /\ ~Exists(db, MetadataKey(id))
                /\ ~Exists(db, ThreadKey(t))
                /\ last.ret = Cardinality(last.call.removable)
                /\ \A limit \in Limits \cup {10} : ListCheckpoints(db, t, limit) = <<>>
                /\ LatestCheckpoint(db, t) = None
                /\ ZCard(db, ThreadKey(t)) = 0)
    /\ [][\A p \in Clients :
            frame[p].op = "clear_thread_checkpoints" =>
                \A u \in Threads \ {frame[p].thread_id} : ThreadUntouched(u)]_vars

\* A thread holding a checkpoint with metadata has been cleared while the
\* other thread holds a checkpoint, which is still there.
C18_Witness ==
    /\ ClearedThread("t1")
    /\ last.ret = 1
    /\ \E id \in last.call.removable : LogOf(CheckpointKey(id))[1].metadata # None
    /\ \E id \in Members(db, ThreadKey("t2")) : LoadCheckpoint(db, id) # None

\* A thread has been cleared whose checkpoint had expired: the index
\* referenced an id and nothing was there to remove.
C18_WitnessExpired ==
    /\ ClearedThread("t1")
    /\ last.call.referenced # {}
    /\ last.ret = 0

----------------------------------------------------------------------------
(* save_checkpoint then load_checkpoint.                                   *)

\* What save_checkpoint wrote under the content key of id: one record of
\* the log, ids being issued once.
Written(id) == LogOf(CheckpointKey(id))

\* json.dumps and json.loads give back the state and the metadata of call w
\* as they were passed.
JsonStable(w) ==
    /\ JsonDict(w.data) = w.data
    /\ JsonDict(OrEmpty(w.metadata)) = OrEmpty(w.metadata)

Day == 24 * 3600

C19_WitnessExpired ==
    /\ last.call.op = "load_checkpoint" /\ ~last.error
    /\ last.ret = None
    /\ Written(last.call.checkpoint_id) # <<>>
    /\ last.call.checkpoint_id \in Members(db, ThreadKey("t1"))
    /\ now - Written(last.call.checkpoint_id)[1].at >= Day * TicksPerSecond

----------------------------------------------------------------------------
(* restore_from_checkpoint.                                                *)

\* C20: the step on which restore_from_checkpoint(c) returns gives None
\* exactly when load_checkpoint(c) gives None in that state, and otherwise
\* the loaded data as state, the loaded metadata, thread_id and timestamp,
\* and c as checkpoint_id; and no step of restore_from_checkpoint changes a
\* key or an expiry of the backend.
C20_RestoreIsLoadReshaped ==
    [][\A p \in Clients :
        frame[p].op = "restore_from_checkpoint" /\ pc'[p] = "idle" /\ ~last'.error =>
            LET c == frame[p].checkpoint_id
                loaded == LoadCheckpoint(db, c)
            IN  /\ (last'.ret = None) <=> (loaded = None)
                /\ loaded # None =>
                    /\ last'.ret[1].state = loaded[1].data
                    /\ last'.ret[1].metadata = loaded[1].metadata
                    /\ last'.ret[1].thread_id = loaded[1].thread_id
                    /\ last'.ret[1].timestamp = loaded[1].timestamp
                    /\ last'.ret[1].checkpoint_id = c
                    /\ DOMAIN last'.ret[1] =
                           {"state", "metadata", "thread_id", "timestamp", "checkpoint_id"}
                /\ db' = db /\ ttl' = ttl]_vars

\* restore_from_checkpoint has returned the state and the metadata of a
\* checkpoint saved with metadata.
C20_Witness ==
    /\ last.call.op = "restore_from_checkpoint" /\ ~last.error
    /\ last.ret # None
    /\ last.ret[1].state = JsonDict(StepOne)
    /\ last.ret[1].metadata = JsonDict(Tagged)
    /\ last.ret[1].checkpoint_id = last.call.checkpoint_id

\* restore_from_checkpoint has returned None for an id whose content was
\* never written.
C20_WitnessAbsent ==
    /\ last.call.op = "restore_from_checkpoint" /\ ~last.error
    /\ last.ret = None
    /\ Written(last.call.checkpoint_id) = <<>>

----------------------------------------------------------------------------
(* list_checkpoints.                                                       *)

\* The place of checkpoint id among the saves of the thread with index key,
\* in the order in which the saves returned.
SaveOrder(key, id) == CHOOSE i \in 1..Len(LogOf(key)) : LogOf(key)[i] = id

\* C21 as stated: list_checkpoints(t, limit) with limit >= 1 returns at most
\* limit records of thread t, and of two adjacent records the first was
\* saved after the second, whatever the delay between the saves.
C21_NewestFirst ==
    \A t \in Threads :
        /\ last.call.op = "list_checkpoints" /\ ~last.error
        /\ last.call.thread_id = t /\ last.call.limit >= 1
        => /\ Len(last.ret) <= last.call.limit
           /\ \A i \in 1..Len(last.ret) :
                /\ last.ret[i].thread_id = t
                /\ last.ret[i].checkpoint_id \in Range(LogOf(ThreadKey(t)))
           /\ \A i \in 1..(Len(last.ret) - 1) :
                SaveOrder(ThreadKey(t), last.ret[i].checkpoint_id)
                    > SaveOrder(ThreadKey(t), last.ret[i + 1].checkpoint_id)

----------------------------------------------------------------------------
(* get_recent_decisions.                                                   *)

\* The score of decision id in agent a's index.
DecisionScore(a, id) == (CHOOSE x \in ZSetOf(db, DecisionIndexKey(a)) : x.m = id).s

\* The ids among the n highest-ranking of agent a's index whose content key
\* exists.
LiveRecent(a, n) ==
    {x.m : x \in {y \in Newest(DecisionIndexKey(a), n, "id") : Exists(db, DecisionKey(y.m))}}

C22_WitnessTwo ==
    /\ last.call.op = "get_recent_decisions" /\ ~last.error
    /\ Len(last.ret) = 2

----------------------------------------------------------------------------
(* The reads without a limit argument.                                     *)

\* C23 as stated: after LoadRounds store_conversation calls and LoadRounds
\* store_decision calls for one agent, get_conversation_history(agent) and
\* get_recent_decisions(agent), called without a limit, each return
\* LoadRounds records.
C23_AllRecordsReturned ==
    \A a \in Agents :
        /\ ~last.error /\ last.call.op # "none" /\ last.call.agent_id = a
        /\ Len(LogOf(ConversationKey(a))) = LoadRounds
        /\ Len(LogOf(DecisionIndexKey(a))) = LoadRounds
        => /\ last.call.op = "get_conversation_history"
              /\ last.call.limit = DefaultHistoryLimit => Len(last.ret) = LoadRounds
           /\ last.call.op = "get_recent_decisions"
              /\ last.call.limit = DefaultDecisionLimit => Len(last.ret) = LoadRounds


----------------------------------------------------------------------------
(* save_agent_state and restore_agent_state.                               *)

\* One client saving one agent state of one thread through the memory
\* manager, again and again, and restoring from the ids it was given.
NextManager ==
    \/ SaveAgentStateCall("c1", "t1", StepOne, Some(Tagged))
    \/ SaveAgentStateHistory("c1")
    \/ SaveAgentStateSave("c1")
    \/ SaveCheckpointSetex("c1")
    \/ SaveCheckpointZadd("c1")
    \/ SaveCheckpointTrim("c1")
    \/ SaveCheckpointMetadata("c1")
    \/ \E id \in issued : RestoreAgentStateCall("c1", id)
    \/ RestoreFromCheckpointGet("c1")
    \/ StoreConversationZadd("c1")
    \/ StoreConversationTrim("c1")
    \/ StoreConversationExpire("c1")
    \/ BackendError("c1")

SpecManager == Init /\ [][NextManager]_vars

\* save_agent_state returned checkpoint id c.
SavedAgentState(c) ==
    /\ Written(c) # <<>>
    /\ c \in {LogOf(ThreadKey(Written(c)[1].thread_id))[i] :
                i \in 1..Len(LogOf(ThreadKey(Written(c)[1].thread_id)))}

\* The last n entries of sequence s.
Suffix(s, n) == SubSeq(s, Len(s) - n + 1, Len(s))

----------------------------------------------------------------------------
(* Knowledge records and their categories.                                 *)

\* Categories and ids with a separator in them, as in "mining:stats".
NestedCategories == {"a", "a:b"}
NestedIds == {"c", "b:c"}

\* One client storing knowledge under nested names and reading it back, one
\* record or one category at a time.
NextCategory ==
    \/ StoreKnowledgeCall("c1", "c", Note, "a:b")
    \/ StoreKnowledgeCall("c1", "b:c", Topic, "a")
    \/ StoreKnowledgeSet("c1")
    \/ StoreKnowledgeSadd("c1")
    \/ \E id \in NestedIds, c \in NestedCategories : GetKnowledgeCall("c1", id, c)
    \/ GetKnowledgeGet("c1")
    \/ \E c \in NestedCategories, limit \in Limits : GetKnowledgeByCategoryCall("c1", c, limit)
    \/ GetKnowledgeByCategorySrandmember("c1")
    \/ GetKnowledgeByCategoryGet("c1")
    \/ Tick

SpecCategory == Init /\ [][NextCategory]_vars

\* The successful store_knowledge calls of id k in category c, oldest first.
StoredKnowledge(k, c) ==
    SelectSeq(LogOf(KnowledgeIndexKey(c)), LAMBDA e : e.knowledge_id = k)

\* C25 as stated: once store_knowledge(k, p, c) has succeeded,
\* get_knowledge(k, c) returns the record of (k, c) with the payload of the
\* latest such call (payloads JSON leaves as they are), and
\* get_knowledge_by_category(c, limit) returns at most limit records, no two
\* of them the same, each with category c and the payload stored for its id
\* in c.
C25_KnowledgePersists ==
    /\ pc["c1"] = "idle" /\ last.call.op = "get_knowledge"
       /\ StoredKnowledge(last.call.knowledge_id, last.call.category) # <<>>
       => LET stored == StoredKnowledge(last.call.knowledge_id, last.call.category)
          IN  /\ last.ret # None
              /\ last.ret[1].knowledge_id = last.call.knowledge_id
              /\ last.ret[1].category = last.call.category
              /\ last.ret[1].data = stored[Len(stored)].data
    /\ pc["c1"] = "idle" /\ last.call.op = "get_knowledge_by_category"
       => /\ Len(last.ret) <= last.call.limit
          /\ \A i, j \in 1..Len(last.ret) : last.ret[i] = last.ret[j] => i = j
          /\ \A i \in 1..Len(last.ret) :
                LET stored == StoredKnowledge(last.ret[i].knowledge_id, last.call.category)
                IN  /\ last.ret[i].category = last.call.category
                    /\ stored # <<>>
                    /\ last.ret[i].data = stored[Len(stored)].data


----------------------------------------------------------------------------
(* get_thread_statistics.                                                  *)

\* One client saving checkpoints of one thread and asking for its
\* statistics, the clock advancing and a day passing now and then.
NextStatistics ==
    \/ SaveCheckpointCall("c1", "t1", StepZero, None)
    \/ SaveCheckpointSetex("c1")
    \/ SaveCheckpointZadd("c1")
    \/ SaveCheckpointTrim("c1")
    \/ GetThreadStatisticsCall("c1", "t1")
    \/ GetThreadStatisticsZcard("c1")
    \/ GetThreadStatisticsZrange("c1")
    \/ GetThreadStatisticsOldest("c1")
    \/ GetThreadStatisticsZrevrange("c1")
    \/ GetThreadStatisticsNewest("c1")
    \/ Tick
    \/ Sleep(CheckpointTTL)

SpecStatistics == Init /\ [][NextStatistics]_vars

\* The timestamp statistics report for an indexed element e: the timestamp
\* of its stored content, None when the content is gone.
Reported(e) == CheckpointTimestamp(db, e.m)

\* C26 as stated, after get_thread_statistics(t) has returned: the count is
\* the size of t's index; first_checkpoint, when set, is the content
\* timestamp of an indexed checkpoint of lowest score, and when null that
\* checkpoint's content is gone; last_checkpoint likewise for the highest
\* score; and first_checkpoint <= last_checkpoint when both are set.
C26_ThreadStatistics ==
    pc["c1"] = "idle" /\ last.call.op = "get_thread_statistics" /\ ~last.error =>
        LET z == ZSetOf(db, ThreadKey(last.call.thread_id))
            lowest == {e \in z : \A x \in z : e.s <= x.s}
            highest == {e \in z : \A x \in z : e.s >= x.s}
            first == last.ret.first_checkpoint
            latest == last.ret.last_checkpoint
        IN  /\ last.ret.checkpoint_count = Cardinality(z)
            /\ z # {} => \E e \in lowest :
                            IF first = None THEN Reported(e) = None
                            ELSE first[1] = IsoFormat(Written(e.m)[1].at)
            /\ z # {} => \E e \in highest :
                            IF latest = None THEN Reported(e) = None
                            ELSE latest[1] = IsoFormat(Written(e.m)[1].at)
            /\ z = {} => first = None /\ latest = None
            /\ first # None /\ latest # None => ~StrLess(latest[1], first[1])


----------------------------------------------------------------------------
(* Concurrent writers.                                                     *)

\* Two processes storing conversations and decisions of one agent and
\* checkpoints of one thread, their backend commands interleaved.
NextConcurrent ==
    \/ \E p \in Clients :
          \/ \E d \in {Topic, Note} : StoreConversationCall(p, "a1", d)
          \/ StoreConversationZadd(p)
          \/ StoreConversationTrim(p)
          \/ StoreConversationExpire(p)
          \/ \E d \in {Topic, Note} : StoreDecisionCall(p, "a1", d)
          \/ StoreDecisionSetex(p)
          \/ StoreDecisionZadd(p)
          \/ StoreDecisionTrim(p)
          \/ SaveCheckpointCall(p, "t1", StepZero, None)
          \/ SaveCheckpointSetex(p)
          \/ SaveCheckpointZadd(p)
          \/ SaveCheckpointTrim(p)
    \/ Tick

SpecConcurrent == Init /\ [][NextConcurrent]_vars

\* Every stored record is one complete entry written by one call.
Uncorrupted ==
    /\ \A e \in ZSetOf(db, ConversationKey("a1")) :
          \/ e.m \in Range(LogOf(ConversationKey("a1")))
          \/ \E p \in Clients : frame[p].op = "store_conversation"
                                /\ e.m = ConversationEntry(frame[p])
    /\ \A id \in issued :
          Exists(db, CheckpointKey(id)) =>
              /\ Written(id) # <<>>
              /\ db[CheckpointKey(id)].v.checkpoint_id = id
              /\ db[CheckpointKey(id)].v.thread_id = Written(id)[1].thread_id
              /\ db[CheckpointKey(id)].v.data = JsonDict(Written(id)[1].data)
              /\ db[CheckpointKey(id)].v.timestamp = IsoFormat(Written(id)[1].at)
    /\ \A e \in ZSetOf(db, DecisionIndexKey("a1")) :
          Exists(db, DecisionKey(e.m)) =>
              \E w \in Range(LogOf(DecisionKey(e.m))) :
                  /\ db[DecisionKey(e.m)].v.decision_id = e.m
                  /\ db[DecisionKey(e.m)].v.agent_id = w.agent_id
                  /\ db[DecisionKey(e.m)].v.data = JsonDict(w.data)

\* The time at which the content of the checkpoint or decision under key
\* was last written.
WrittenAt(key) == LogOf(key)[Len(LogOf(key))].at

\* C27 as stated: no stored record is corrupted, and once every call has
\* returned each collection holds at most its bound and every entry of a
\* returned call that it lacks is no newer than any entry it keeps.
C27_ConcurrentWriters ==
    /\ Uncorrupted
    /\ (\A p \in Clients : pc[p] = "idle") =>
        LET conversations == {e.m : e \in ZSetOf(db, ConversationKey("a1"))}
            decisions == {e.m : e \in ZSetOf(db, DecisionIndexKey("a1"))}
            checkpoints == {e.m : e \in ZSetOf(db, ThreadKey("t1"))}
        IN  /\ Cardinality(conversations) <= MaxConversations
            /\ Cardinality(decisions) <= MaxDecisions
            /\ Cardinality(checkpoints) <= MaxCheckpoints
            /\ \A e \in Range(LogOf(ConversationKey("a1"))) \ conversations :
                  \A k \in conversations : ~StrLess(k.timestamp, e.timestamp)
            /\ \A id \in Range(LogOf(DecisionIndexKey("a1"))) \ decisions :
                  \A k \in decisions : WrittenAt(DecisionKey(id)) <= WrittenAt(DecisionKey(k))
            /\ \A id \in Range(LogOf(ThreadKey("t1"))) \ checkpoints :
                  \A k \in checkpoints :
                      WrittenAt(CheckpointKey(id)) <= WrittenAt(CheckpointKey(k))


----------------------------------------------------------------------------
(* Termination.                                                            *)

\* The backend commands of client p's call, each answered or failed.
Steps(p) ==
    \/ StoreConversationZadd(p)
    \/ StoreConversationTrim(p)
    \/ StoreConversationExpire(p)
    \/ SaveCheckpointSetex(p)
    \/ SaveCheckpointZadd(p)
    \/ SaveCheckpointTrim(p)
    \/ SaveCheckpointMetadata(p)
    \/ ClearAgentMemoryExists(p)
    \/ ClearAgentMemoryDelete(p)
    \/ ClearAgentMemoryZrange(p)
    \/ ClearThreadCheckpointsZrange(p)
    \/ DeleteCheckpointExists(p)
    \/ DeleteCheckpointDelete(p)
    \/ DeleteCheckpointMetadataExists(p)
    \/ DeleteCheckpointMetadataDelete(p)
    \/ ClearThreadCheckpointsDelete(p)
    \/ BackendError(p)

\* One client storing conversations and checkpoints and clearing the agent's
\* memory and the thread's checkpoints, commands failing now and then.
NextLive ==
    \/ StoreConversationCall("c1", "a1", Note)
    \/ SaveCheckpointCall("c1", "t1", StepOne, Some(Tagged))
    \/ ClearAgentMemoryCall("c1", "a1")
    \/ ClearThreadCheckpointsCall("c1", "t1")
    \/ Steps("c1")

\* Every command the client issues is answered or times out.
SpecLive == Init /\ [][NextLive]_vars /\ WF_vars(Steps("c1"))

\* The most backend commands client p's call can still issue.
Pending(p) ==
    LET f == frame[p]
        at == pc[p]
        rest == IF f.op = "clear_thread_checkpoints" THEN 4 * (Len(f.checkpoint_ids) - 1) + 1
                ELSE 0
    IN  CASE at = "idle" -> 0
          [] at = "sc_zadd" -> 3
          [] at = "sc_trim" -> 2
          [] at = "sc_expire" -> 1
          [] at = "sv_setex" -> 4
          [] at = "sv_zadd" -> 3
          [] at = "sv_trim" -> 2
          [] at = "sv_meta" -> 1
          [] at = "ca_exists" -> 2 * Len(f.patterns) + 1 + 2 * ZCard(db, DecisionIndexKey(f.agent_id))
          [] at = "ca_delete" -> 2 * Len(f.patterns) + 2 * ZCard(db, DecisionIndexKey(f.agent_id))
          [] at = "ca_zrange" -> 1 + 2 * ZCard(db, DecisionIndexKey(f.agent_id))
          [] at = "ct_zrange" -> 2 + 4 * ZCard(db, ThreadKey(f.thread_id))
          [] at = "dc_exists" -> 4 + rest
          [] at = "dc_delete" -> 3 + rest
          [] at = "dc_mexists" -> 2 + rest
          [] at = "dc_mdelete" -> 1 + rest
          [] at = "ct_delete" -> 1

\* The most commands a call can issue when it begins: the fixed commands of
\* the longest method, and four per id of a thread index, which holds its
\* retention bound and the inserts whose trim failed.
CallBound == 7 + 4 * (MaxCheckpoints + MaxFailures)

\* C28: every call returns.  A call begins with at most CallBound commands
\* ahead of it, every command it issues, answered or failed, leaves it
\* with fewer, and it returns after the last: no command is issued again
\* and no loop starts over.
C28_EveryCallReturns ==
    /\ \A p \in Clients : (pc[p] # "idle") ~> (pc[p] = "idle")
    /\ [][\A p \in Clients :
            /\ pc[p] = "idle" => Pending(p)' <= CallBound
            /\ pc[p] # "idle" => Pending(p)' < Pending(p)]_vars

\* clear_thread_checkpoints has returned after its loop over two ids, one of
\* whose deletes failed.
C28_Witness ==
    /\ pc["c1"] = "idle"
    /\ last.call.op = "clear_thread_checkpoints"
    /\ Cardinality(last.call.referenced) = 2
    /\ last.call.failed
    /\ last.ret = 1


----------------------------------------------------------------------------
(* get_latest_checkpoint after delete_checkpoint.                          *)

\* The frames of two completed saves of thread t1: a first checkpoint at
\* tick 0 and a second one, with metadata, at tick 1.
FirstSave ==
    [op |-> "save_checkpoint", thread_id |-> "t1", data |-> StepZero, metadata |-> None,
     checkpoint_id |-> GenerateCheckpointId("t1", 0, SaltValues[1])]
SecondSave ==
    [op |-> "save_checkpoint", thread_id |-> "t1", data |-> StepOne,
     metadata |-> Some(Tagged),
     checkpoint_id |-> GenerateCheckpointId("t1", 1, SaltValues[2])]

\* The store after save_checkpoint call f ran at tick t on store s, command
\* by command: setex, zadd, zremrangebyrank, and setex of the metadata.
Saved(s, f, t) ==
    LET ckey == CheckpointKey(f.checkpoint_id)
        mkey == MetadataKey(f.checkpoint_id)
        tkey == ThreadKey(f.thread_id)
        d1 == SetStr(s.db, ckey, CheckpointEntry(f, t))
        d2 == TrimCheckpoints(ZAdd(d1, tkey, f.checkpoint_id, Timestamp(t)), tkey)
        e1 == SetTtl(s.ttl, ckey, t, CheckpointTTL)
        old == IF tkey \in DOMAIN s.log THEN s.log[tkey] ELSE <<>>
    IN  [db |-> IF OrEmpty(f.metadata) # <<>>
                THEN SetStr(d2, mkey, JsonDict(f.metadata[1])) ELSE d2,
         ttl |-> IF OrEmpty(f.metadata) # <<>>
                 THEN SetTtl(e1, mkey, t, CheckpointTTL) ELSE e1,
         log |-> [k \in DOMAIN s.log \cup {ckey, tkey} |->
                    IF k = ckey
                    THEN <<[thread_id |-> f.thread_id, checkpoint_id |-> f.checkpoint_id,
                            data |-> f.data, metadata |-> f.metadata, at |-> t]>>
                    ELSE IF k = tkey THEN Append(old, f.checkpoint_id)
                    ELSE s.log[k]]]

SavedTwice == Saved(Saved([db |-> <<>>, ttl |-> <<>>, log |-> <<>>], FirstSave, 0), SecondSave, 1)

\* The state after the two saves; the calls are counted from here.
InitSaved ==
    /\ db = SavedTwice.db
    /\ ttl = SavedTwice.ttl
    /\ log = SavedTwice.log
    /\ now = 1
    /\ pc = [p \in Clients |-> "idle"]
    /\ frame = [p \in Clients |-> Idle]
    /\ last = [call |-> SecondSave, ret |-> Some(SecondSave.checkpoint_id), error |-> FALSE]
    /\ untrimmed = [k \in {ThreadKey("t1")} |-> 0]
    /\ issued = {FirstSave.checkpoint_id, SecondSave.checkpoint_id}
    /\ failures = 0
    /\ ncalls = 0

\* One client deleting checkpoints of a thread that has two, saving further
\* ones and reading the latest.
NextLatest ==
    \/ SaveCheckpointCall("c1", "t1", StepZero, None)
    \/ SaveCheckpointSetex("c1")
    \/ SaveCheckpointZadd("c1")
    \/ SaveCheckpointTrim("c1")
    \/ \E id \in issued : DeleteCheckpointCall("c1", id)
    \/ DeleteCheckpointExists("c1")
    \/ DeleteCheckpointDelete("c1")
    \/ DeleteCheckpointMetadataExists("c1")
    \/ DeleteCheckpointMetadataDelete("c1")
    \/ GetLatestCheckpointCall("c1", "t1")
    \/ GetLatestCheckpointZrevrange("c1")
    \/ GetLatestCheckpointGet("c1")

SpecLatest == InitSaved /\ [][NextLatest]_vars

\* The indexed checkpoints of thread t whose content key exists.
Remaining(t) == {e \in ZSetOf(db, ThreadKey(t)) : Exists(db, CheckpointKey(e.m))}

\* C30 as stated: when get_latest_checkpoint(t) has returned and t's index
\* references a checkpoint whose content exists, the result is a record, that
\* of a remaining checkpoint no other remaining one is newer than.
C30_LatestOfRemaining ==
    /\ pc["c1"] = "idle"
    /\ last.call.op = "get_latest_checkpoint"
    /\ ~last.error
    /\ Remaining(last.call.thread_id) # {}
    => /\ last.ret # None
       /\ \E e \in Remaining(last.call.thread_id) :
             /\ last.ret[1].checkpoint_id = e.m
             /\ \A x \in Remaining(last.call.thread_id) : x.s <= e.s


----------------------------------------------------------------------------
(* Distinct decisions.                                                     *)

\* One client storing decisions of one agent, call after call.
NextDistinct ==
    \/ \E d \in {Note, Topic} : StoreDecisionCall("c1", "a1", d)
    \/ StoreDecisionSetex("c1")
    \/ StoreDecisionZadd("c1")
    \/ StoreDecisionTrim("c1")
    \/ Tick

SpecDistinct == Init /\ [][NextDistinct]_vars

\* The ids the successful store_decision calls for agent a returned, in call
\* order.
DecisionsStored(a) == LogOf(DecisionIndexKey(a))

\* C29 as stated: after k successful store_decision calls for one agent the
\* index holds k ids (the bound, once k exceeds it: the trim removes ids
\* only) and k content records exist, each holding the payload of its own
\* call, whatever clock values the calls read.
C29_DistinctDecisions ==
    pc["c1"] = "idle" =>
        LET k == Len(DecisionsStored("a1"))
            ids == Range(DecisionsStored("a1"))
        IN  /\ ZCard(db, DecisionIndexKey("a1")) = Min(k, MaxDecisions)
            /\ Cardinality({id \in ids : Exists(db, DecisionKey(id))}) = k
            /\ \A id \in ids :
                  \A w \in Range(LogOf(DecisionKey(id))) :
                      /\ Exists(db, DecisionKey(id))
                      /\ db[DecisionKey(id)].v.data = JsonDict(w.data)


----------------------------------------------------------------------------
(* clear_thread_checkpoints and the checkpoints the trim evicted.          *)

\* One client saving a further checkpoint of a thread that has two, which
\* evicts the oldest id from the index, clearing the thread and loading the
\* checkpoints saved so far.
NextEvicted ==
    \/ SaveCheckpointCall("c1", "t1", StepZero, None)
    \/ SaveCheckpointSetex("c1")
    \/ SaveCheckpointZadd("c1")
    \/ SaveCheckpointTrim("c1")
    \/ ClearThreadCheckpointsCall("c1", "t1")
    \/ ClearThreadCheckpointsZrange("c1")
    \/ DeleteCheckpointExists("c1")
    \/ DeleteCheckpointDelete("c1")
    \/ DeleteCheckpointMetadataExists("c1")
    \/ DeleteCheckpointMetadataDelete("c1")
    \/ ClearThreadCheckpointsDelete("c1")
    \/ \E id \in issued : LoadCheckpointCall("c1", id)
    \/ LoadCheckpointGet("c1")

SpecEvicted == InitSaved /\ [][NextEvicted]_vars

\* The ids of the checkpoints written for thread t so far.
CheckpointsOf(t) == {id \in issued : Written(id) # <<>> /\ Written(id)[1].thread_id = t}

\* C31 as stated: once clear_thread_checkpoints(t) has returned with no
\* backend command failed, no checkpoint written for t has a content or a
\* metadata key, whether or not t's index still referenced it, and none of
\* them can be loaded by id.
C31_ClearRemovesEvicted ==
    \A t \in Threads :
        ClearedThread(t) =>
            \A id \in CheckpointsOf(t) :
                /\ ~Exists(db, CheckpointKey(id))
                /\ ~Exists(db, MetadataKey(id))
                /\ LoadCheckpoint(db, id) = None


----------------------------------------------------------------------------
(* restore_agent_state and the order of the history it stores again.       *)

\* The manager's agent had two conversations, both stored at tick 0.
BundledConversations ==
    LET key == ConversationKey(ManagerAgent)
        e(data) == ConversationEntry([timestamp |-> IsoFormat(0), data |-> data,
                                      agent_id |-> ManagerAgent])
    IN  ZAdd(ZAdd(<<>>, key, e(Topic), Timestamp(0)), key, e(Note), Timestamp(0))

\* The frame of save_agent_state('t1', {'step': 1}) called next, at tick 0:
\* its bundle is the history as get_conversation_history returned it.
BundledSave ==
    [op |-> "save_agent_state", thread_id |-> "t1", state |-> StepOne, metadata |-> None,
     checkpoint_id |-> GenerateCheckpointId("t1", 0, SaltValues[1]),
     data |-> CompleteState(StepOne,
                            ConversationHistory(BundledConversations, ManagerAgent,
                                                BundleLimit),
                            "t1", 0)]

Bundle == DictGet(BundledSave.data, "conversation_history", <<>>)

BundledStore == Saved([db |-> <<>>, ttl |-> <<>>, log |-> <<>>], BundledSave, 0)

\* The state after the save and a clear_agent_memory of the manager's agent:
\* the checkpoint is stored and the conversation key is gone.  The calls are
\* counted from here.
InitBundled ==
    /\ db = BundledStore.db
    /\ ttl = BundledStore.ttl
    /\ log = [k \in DOMAIN BundledStore.log \cup {ConversationKey(ManagerAgent)} |->
                IF k = ConversationKey(ManagerAgent)
                THEN <<Bundle[2], Bundle[1],
                       ConversationEntry([timestamp |-> IsoFormat(0),
                                          data |-> StateCheckpoint(BundledSave),
                                          agent_id |-> ManagerAgent])>>
                ELSE BundledStore.log[k]]
    /\ now = 0
    /\ pc = [p \in Clients |-> "idle"]
    /\ frame = [p \in Clients |-> Idle]
    /\ last = [call |-> [op |-> "clear_agent_memory", agent_id |-> ManagerAgent],
               ret |-> 1, error |-> FALSE]
    /\ untrimmed = [k \in {ThreadKey("t1"), ConversationKey(ManagerAgent)} |-> 0]
    /\ issued = {BundledSave.checkpoint_id}
    /\ failures = 0
    /\ ncalls = 0

\* One client restoring the saved state and reading the history, the clock
\* running.
NextReplay ==
    \/ \E id \in issued : RestoreAgentStateCall("c1", id)
    \/ RestoreFromCheckpointGet("c1")
    \/ StoreConversationZadd("c1")
    \/ StoreConversationTrim("c1")
    \/ StoreConversationExpire("c1")
    \/ \E n \in {1, MaxConversations} : GetConversationHistoryCall("c1", ManagerAgent, n)
    \/ GetConversationHistoryZrevrange("c1")
    \/ Tick

SpecReplay == InitBundled /\ [][NextReplay]_vars

\* C32 as stated: once restore_agent_state has stored the bundled records
\* r1..rn again in the cleared memory, get_conversation_history with a limit
\* of at least n returns the payloads of r1..rn in the bundle's newest-first
\* order.
C32_ReplayKeepsOrder ==
    /\ last.call.op = "get_conversation_history"
    /\ ~last.error
    /\ last.call.limit >= Len(Bundle)
    /\ Len(LogOf(ConversationKey(ManagerAgent))) = 3 + Len(Bundle)
    => [i \in 1..Len(last.ret) |-> last.ret[i].data]
         = [i \in 1..Len(Bundle) |-> Bundle[i].data]


----------------------------------------------------------------------------
(* Health checks and the keys of the callers.                              *)

WorkflowIds == {HealthWorkflow, "w1"}

\* One client storing workflow states and running the health checks of the
\* memory store and of the Langflow component, the clock running.
NextProbe ==
    \/ \E w \in WorkflowIds : StoreWorkflowStateCall("c1", w, StepOne)
    \/ StoreContextSetex("c1")
    \/ HealthCheckCall("c1")
    \/ LangflowHealthCheckCall("c1")
    \/ HealthCheckSetex("c1")
    \/ HealthCheckGet("c1")
    \/ HealthCheckDelete("c1")
    \/ LangflowHealthCheckStore("c1")
    \/ LangflowHealthCheckGet("c1")
    \/ LangflowHealthCheckCleanup("c1")
    \/ Tick

SpecProbe == Init /\ [][NextProbe]_vars

\* C33 as stated, for the health check of the Langflow component and the
\* memory store's health check it runs first: when the call returns, every
\* key that existed when it began still exists with the same value, whatever
\* workflow ids the callers have used, and no other key exists.
C33_HealthCheckKeepsKeys ==
    [][\A p \in Clients :
          /\ frame[p].op = "langflow_health_check"
          /\ pc'[p] = "idle"
          => /\ DOMAIN db' = DOMAIN frame[p].before
             /\ \A k \in DOMAIN frame[p].before : db'[k] = frame[p].before[k]]_vars


----------------------------------------------------------------------------
(* Two health checks at once.                                              *)

\* Two clients running RedisMemoryStore.health_check against one backend, no
\* command failing, the clock running.
NextProbes ==
    \/ \E p \in Clients :
          \/ HealthCheckCall(p)
          \/ HealthCheckSetex(p)
          \/ HealthCheckGet(p)
          \/ HealthCheckDelete(p)
    \/ Tick

SpecProbes == Init /\ [][NextProbes]_vars

\* C34 as stated: with a live backend every health_check returns status
\* 'healthy' with read_write_ok true, however the write, read and delete
\* steps of two concurrent calls interleave on the probe key.
C34_ConcurrentHealthChecks ==
    last.call.op = "health_check" /\ ~last.error
    => last.ret.status = "healthy" /\ last.ret.read_write_ok


----------------------------------------------------------------------------
(* The limit of the three readers.                                         *)

\* One client storing a conversation, a decision and a checkpoint and
\* reading each kind back with every limit from 0 up.
NextLimit ==
    \/ StoreConversationCall("c1", "a1", Topic)
    \/ StoreConversationZadd("c1")
    \/ StoreConversationTrim("c1")
    \/ StoreConversationExpire("c1")
    \/ StoreDecisionCall("c1", "a1", Note)
    \/ StoreDecisionSetex("c1")
    \/ StoreDecisionZadd("c1")
    \/ StoreDecisionTrim("c1")
    \/ SaveCheckpointCall("c1", "t1", StepZero, None)
    \/ SaveCheckpointSetex("c1")
    \/ SaveCheckpointZadd("c1")
    \/ SaveCheckpointTrim("c1")
    \/ \E limit \in Limits : GetConversationHistoryCall("c1", "a1", limit)
    \/ GetConversationHistoryZrevrange("c1")
    \/ \E limit \in Limits : GetRecentDecisionsCall("c1", "a1", limit)
    \/ GetRecentDecisionsZrevrange("c1")
    \/ GetRecentDecisionsGet("c1")
    \/ \E limit \in Limits : ListCheckpointsCall("c1", "t1", limit)
    \/ ListCheckpointsZrevrange("c1")
    \/ ListCheckpointsGet("c1")

SpecLimit == Init /\ [][NextLimit]_vars

\* C35 as stated: get_conversation_history, get_recent_decisions and
\* list_checkpoints called with a limit >= 0 return at most limit records,
\* and so an empty sequence when the limit is 0.
C35_AtMostLimit ==
    /\ last.call.op \in {"get_conversation_history", "get_recent_decisions",
                          "list_checkpoints"}
    /\ ~last.error
    => Len(last.ret) <= last.call.limit


----------------------------------------------------------------------------
(* Store calls that fail part of the way.                                  *)

\* One client storing a conversation, a decision, a knowledge record and a
\* checkpoint while backend commands fail.
NextPartial ==
    \/ StoreConversationCall("c1", "a1", Topic)
    \/ StoreConversationZadd("c1")
    \/ StoreConversationTrim("c1")
    \/ StoreConversationExpire("c1")
    \/ StoreDecisionCall("c1", "a1", Note)
    \/ StoreDecisionSetex("c1")
    \/ StoreDecisionZadd("c1")
    \/ StoreDecisionTrim("c1")
    \/ StoreKnowledgeCall("c1", "k", Note, "x")
    \/ StoreKnowledgeSet("c1")
    \/ StoreKnowledgeSadd("c1")
    \/ SaveCheckpointCall("c1", "t1", StepZero, Some(Tagged))
    \/ SaveCheckpointSetex("c1")
    \/ SaveCheckpointZadd("c1")
    \/ SaveCheckpointTrim("c1")
    \/ SaveCheckpointMetadata("c1")
    \/ BackendError("c1")

SpecPartial == Init /\ [][NextPartial]_vars

\* C36 as stated, for the first call on an empty store: when
\* store_conversation, store_decision or store_knowledge has returned False,
\* or save_checkpoint absent, because a backend command failed, the store is
\* as it was before the call: empty.
C36_FailedStoreChangesNothing ==
    /\ ncalls = 1
    /\ last.error
    /\ last.call.op \in {"store_conversation", "store_decision", "store_knowledge",
                          "save_checkpoint"}
    => db = <<>> /\ ttl = <<>>


----------------------------------------------------------------------------
(* Searches without an agent id.                                           *)

\* One client storing conversations and decisions that match the query and
\* searching without an agent id, directly and through the Langflow node.
NextNode ==
    \/ \E a \in Agents : StoreConversationCall("c1", a, Topic)
    \/ StoreConversationZadd("c1")
    \/ StoreConversationTrim("c1")
    \/ StoreConversationExpire("c1")
    \/ StoreDecisionCall("c1", "a1", Topic)
    \/ StoreDecisionSetex("c1")
    \/ StoreDecisionZadd("c1")
    \/ StoreDecisionTrim("c1")
    \/ \E n \in Limits : SearchMemoryCall("c1", "MINING", None, n)
    \/ \E n \in Limits, i \in BOOLEAN : NodeSearchMemoryCall("c1", "MINING", n, i)

SpecNode == Init /\ [][NextNode]_vars

----------------------------------------------------------------------------
(* get_workflow_analytics and the stored execution results.                *)

\* result_data of an execution of workflow w1, and a conversation payload
\* naming the same workflow.
Succeeded == <<Item(PyStr("workflow_id"), PyStr("w1")), Item(PyStr("status"), PyStr("success"))>>
OfWorkflow == <<Item(PyStr("workflow_id"), PyStr("w1"))>>

ExecutionIds == {"e1", "e2"}

\* One client storing execution results of workflow w1 and conversations of
\* the component's agent and asking for the analytics of w1.
NextAnalytics ==
    \/ \E e \in ExecutionIds : StoreExecutionResultCall("c1", e, Succeeded)
    \/ StoreKnowledgeSet("c1")
    \/ StoreKnowledgeSadd("c1")
    \/ StoreConversationCall("c1", ComponentId, OfWorkflow)
    \/ StoreConversationZadd("c1")
    \/ StoreConversationTrim("c1")
    \/ StoreConversationExpire("c1")
    \/ GetWorkflowAnalyticsCall("c1", "w1")
    \/ SearchMemoryConversations("c1")
    \/ SearchMemoryZrevrange("c1")
    \/ Tick

SpecAnalytics == Init /\ [][NextAnalytics]_vars

\* The ids of the stored execution results whose result data names workflow w.
ExecutionsOf(w) ==
    {e.knowledge_id : e \in {x \in Range(LogOf(KnowledgeIndexKey(ExecutionCategory))) :
        DictGet(DictGet(x.data, "result", <<>>), "workflow_id", PyStr("")) = PyStr(w)}}

\* C38 as stated: total_executions of get_workflow_analytics(w) is the number
\* of execution results stored with store_execution_result whose result data
\* names workflow_id w (here always fewer than 100).
C38_CountsExecutions ==
    last.call.op = "get_workflow_analytics" /\ ~last.error
    => last.ret.total_executions = Cardinality(ExecutionsOf(last.call.workflow_id))


----------------------------------------------------------------------------
(* Functions wrapped by checkpoint_decorator.                              *)

\* What the wrapped function does: it returns 'done' or raises an exception
\* whose text is 'bad input'.
Outcomes ==
    {[kind |-> "return", value |-> PyStr("done")],
     [kind |-> "raise", value |-> PyStr("bad input")]}

\* One client calling a function wrapped for thread t1 while backend commands
\* fail.
NextWrapper ==
    \/ \E o \in Outcomes : WrapperCall("c1", "t1", "work", o)
    \/ SaveCheckpointSetex("c1")
    \/ SaveCheckpointZadd("c1")
    \/ SaveCheckpointTrim("c1")
    \/ SaveCheckpointMetadata("c1")
    \/ BackendError("c1")

SpecWrapper == Init /\ [][NextWrapper]_vars

\* C39: a wrapped function hands its caller what the function did: the same
\* value when it returned, the same exception when it raised, whether or not
\* the save_checkpoint failed.  The wrapper has by then attempted exactly one
\* save_checkpoint for its thread, with metadata auto_checkpoint = true after
\* a return and error = true after an exception; when no command failed that
\* checkpoint is stored with this metadata.
C39_WrapperTransparent ==
    last.call.op = "checkpoint_wrapper" =>
        LET f == last.call
            flag == IF f.outcome.kind = "return" THEN "auto_checkpoint" ELSE "error"
        IN  /\ last.ret = f.outcome
            /\ Len(f.attempts) = 1
            /\ f.attempts[1].thread_id = f.thread_id
            /\ DictGet(f.attempts[1].metadata, flag, PyStr("")) = PyTrue
            /\ ~f.failed =>
                  /\ Written(f.checkpoint_id) # <<>>
                  /\ Written(f.checkpoint_id)[1].thread_id = f.thread_id
                  /\ DictGet(OrEmpty(Written(f.checkpoint_id)[1].metadata), flag, PyStr(""))
                        = PyTrue

\* The function raised, the save of the error checkpoint failed and the
\* wrapper raised the function's exception, after an earlier call whose
\* auto checkpoint is stored.
C39_Witness ==
    /\ last.call.op = "checkpoint_wrapper"
    /\ last.call.outcome.kind = "raise"
    /\ last.call.failed
    /\ last.ret = last.call.outcome
    /\ \E id \in issued :
          /\ Exists(db, MetadataKey(id))
          /\ DictGet(Get(db, MetadataKey(id))[1], "auto_checkpoint", PyStr("")) = PyTrue

====
